---- MODULE Spec2Model ----
(***************************************************************************)
(* A model of the Corset front-end semantic engine: the symbol table of    *)
(* src/compiler/definitions.rs (scopes, bindings, the symbol and function  *)
(* resolvers), the literal rule of the reducer and the column evaluator of *)
(* src/compiler/generator.rs, the handles of src/compiler/common.rs with   *)
(* their ids and mangled names, the trace reader of src/compute.rs and the *)
(* hexadecimal rendering of the values written out.                        *)
(*                                                                         *)
(* Names are modelled as sequences of their '.'-separated components, so   *)
(* <<"a">> is the name "a" and <<"m", "a">> is the name "m.a".             *)
(***************************************************************************)
EXTENDS Integers, Sequences, FiniteSets, TLC

VARIABLES
    scopes,     \* the arena of SymbolTable nodes; scopes[1] is the root
    cur,        \* the scope the running pass holds as its ctx
    counter,    \* the static COUNTER that uniquifies for/fn scope names
    pass,       \* "definitions" | "generator" | "computing" | "done", or
                \* "aborted" | "crashed"
    last,       \* the last call made on the symbol table and what it returned
    modules,    \* ConstraintSet::modules: the value of every column
    ct,         \* the computation table shared by all the scopes
    nexti,      \* the index compute_all has reached in the table
    wlog,       \* the writes the evaluator has made to the columns
    elog,       \* the errors compute_all has logged
    pads,       \* the padding strategies applied to the columns so far
    targs,      \* the reduced arguments of the call being applied
    reduced,    \* what apply returned for the last call
    cset,       \* the constraints and computations a ConstraintSet is made of
    trace,      \* the columns fill_traces fills and what it reported
    hexed       \* the field element being written out and its rendering

symvars == <<scopes, cur, counter, pass, last>>
auxvars == <<cset, trace, hexed>>
evvars == <<modules, ct, nexti, wlog, elog, pads, targs, reduced, auxvars>>

vars ==
    <<scopes, cur, counter, pass, last, modules, ct, nexti, wlog, elog, pads,
      targs, reduced, cset, trace, hexed>>

----------------------------------------------------------------------------
(* Bounds of the model *)

\* bindings (symbols and user functions) the definitions pass may insert
MaxBind == 2
\* applications (for iterations and user-defined calls) the generator pass may make
MaxCalls == 1
\* call-stack frames granted to a recursive resolver before the stack overflows
MaxDepth == 12
\* how far beyond either end of the field the integer literals reach
MaxLit == 1
\* computations the computation table may hold
MaxComp == 3
\* the permutations a source declares
MaxPerm == 2
\* rows whose order of delivery by the workers is chosen freely
MaxRows == 3

\* the symbol names, function names and module names the passes draw from
Names == {"a", "b"}
\* the columns of the constraint set the evaluator runs on: A and B are atomic
\* and filled from the trace, X is the target of permutations, K is a
\* composite column and I an interleaved one
ColNames == {"A", "B", "X", "Y", "K", "I", "NOT"}
\* the keys of a scope's symbols
SymNames == Names \cup ColNames
FunNames == {"f", "g"}
ModNames == {"m"}
\* the names handed to resolve_symbol, split on '.'
QueryNames == {<<"a">>, <<"b">>, <<"m", "a">>, <<"n", "a">>}

MAIN_MODULE == "prelude"

----------------------------------------------------------------------------
(* Nodes, symbols, functions *)

\* The prime field, scaled down: the modulus stands for the BN254 scalar
\* field's, and a field element is its canonical representative.
FrModulus == 7
NoFr == -1

\* Fr::from_str of the decimal rendering of x: present when x is in the field
FrFromStr(x) == IF 0 <= x /\ x < FrModulus THEN x ELSE NoFr

\* struct Node { _e, _t }: a Const(value) or a Column(Handle(module, name))
NoNode ==
    [e |-> "None", v |-> 0, fr |-> NoFr, module |-> "", name |-> "", t |-> "Void",
     range |-> {}, phantom |-> FALSE]
ConstNode(x) ==
    [e |-> "Const", v |-> x, fr |-> FrFromStr(x), module |-> "", name |-> "",
     t |-> IF x = 0 \/ x = 1 THEN "Scalar(Boolean)" ELSE "Scalar(Integer)",
     range |-> {}, phantom |-> FALSE]
ColumnNode(m, n) ==
    [e |-> "Column", v |-> 0, fr |-> NoFr, module |-> m, name |-> n,
     t |-> "Column(Integer)", range |-> {}, phantom |-> FALSE]
\* a Column of Kind::Phantom
PhantomNode(m, n) == [ColumnNode(m, n) EXCEPT !.phantom = TRUE]
\* an ArrayColumn(Handle(module, name), range, t)
ArrayNode(m, n, range, ty) ==
    [e |-> "ArrayColumn", v |-> 0, fr |-> NoFr, module |-> m, name |-> n,
     t |-> ty, range |-> range, phantom |-> FALSE]

\* enum Symbol { Alias(String), Final(Node, bool) }, and the absent entry
NoSym == [k |-> "None", to |-> "", node |-> NoNode, visited |-> FALSE]
Alias(to) == [k |-> "Alias", to |-> to, node |-> NoNode, visited |-> FALSE]
Final(node, visited) == [k |-> "Final", to |-> "", node |-> node, visited |-> visited]

\* struct Function { handle, class }, and the absent entry
NoFun == [class |-> "None", module |-> "", to |-> "", pure |-> FALSE]
BuiltinFun == [class |-> "Builtin", module |-> MAIN_MODULE, to |-> "", pure |-> FALSE]
UserFun(m, p) == [class |-> "UserDefined", module |-> m, to |-> "", pure |-> p]
AliasFun(m, to) == [class |-> "Alias", module |-> m, to |-> to, pure |-> FALSE]

\* the BUILTINS table, cut down to one entry
BUILTINS == {"+"}
FunKeys == FunNames \cup BUILTINS

\* a scope name: a module's name is the string s (n = -1); the names "for-{n}-{i}"
\* and "fn-{handle}-{n}" are unique by the COUNTER value n they embed, and are
\* kept as that value
ModuleName(m) == [s |-> m, n |-> -1]
FnName(c) == [s |-> "", n |-> c]
ForName(c) == [s |-> "", n |-> c]

\* SymbolTable::new_root
new_root ==
    [ closed |-> TRUE,
      name |-> ModuleName(MAIN_MODULE),
      parent |-> 0,
      symbols |-> [n \in SymNames |-> NoSym],
      funcs |-> [n \in FunKeys |-> IF n \in BUILTINS THEN BuiltinFun ELSE NoFun],
      ct |-> 1 ]

Root == 1

\* children.get(name): the index of the child of p called nm, 0 when there is none
Child(tab, p, nm) ==
    LET hits == {i \in 1..Len(tab) : tab[i].parent = p /\ tab[i].name = nm}
    IN  IF hits = {} THEN 0 ELSE CHOOSE i \in hits : TRUE

\* SymbolTable::derived: the table after the call, and the scope it returns
derived_new(tab, parent, name, closed) ==
    [ closed |-> closed,
      name |-> name,
      parent |-> parent,
      symbols |-> [n \in SymNames |-> NoSym],
      funcs |-> [n \in FunKeys |-> NoFun],
      ct |-> tab[parent].ct ]

derived_always_inserts(tab, parent, name, closed) ==
    [tab |-> Append(tab, derived_new(tab, parent, name, closed)),
     scope |-> Len(tab) + 1]
derived(tab, parent, name, closed) ==
    IF Child(tab, parent, name) # 0
    THEN [tab |-> tab, scope |-> Child(tab, parent, name)]
    ELSE [tab |-> Append(tab, derived_new(tab, parent, name, closed)),
          scope |-> Len(tab) + 1]

\* self.symbols.get(name) / self.funcs.get(name)
GetSym(tab, s, name) == IF name \in SymNames THEN tab[s].symbols[name] ELSE NoSym
GetFun(tab, s, name) == IF name \in FunKeys THEN tab[s].funcs[name] ELSE NoFun

\* the number of bindings the passes have inserted
NumBind(tab) ==
    Cardinality({<<i, n>> \in (1..Len(tab)) \X SymNames : tab[i].symbols[n].k # "None"})
    + Cardinality({<<i, n>> \in (1..Len(tab)) \X FunNames : tab[i].funcs[n].class # "None"})

----------------------------------------------------------------------------
(* Results *)

\* Result<Node> and Result<Function>; at is the scope that held the entry found
Ok(node, at, name) ==
    [ok |-> TRUE, err |-> "", node |-> node, at |-> at, sym |-> name, fn |-> NoFun]
Err(e) ==
    [ok |-> FALSE, err |-> e, node |-> NoNode, at |-> 0, sym |-> "", fn |-> NoFun]
OkFun(f, at) ==
    [ok |-> TRUE, err |-> "", node |-> NoNode, at |-> at, sym |-> "", fn |-> f]
ErrFun(e) == Err(e)
OkUnit == Ok(NoNode, 0, "")

Overflow == Err("stack overflow")
OverflowFun == ErrFun("stack overflow")

----------------------------------------------------------------------------
(* The symbol resolver *)

\* the recursive call made for an Alias entry: same scope, same visited set
AliasCallFreshAx(ax, name) == {}
AliasCallAx(ax, name) == ax \cup {name}

\* the pure flag handed to the parent on a miss
ParentPure(closed, pure) == closed \/ pure

\* what a hit on Final(exp, _) returns
FinalHitNoPurity(tab, s, name, pure) ==
    Ok(GetSym(tab, s, name).node, s, name)
FinalHit(tab, s, name, pure) ==
    IF pure /\ GetSym(tab, s, name).node.e # "Const"
    THEN Err("impure")
    ELSE Ok(GetSym(tab, s, name).node, s, name)

\* self.parent.upgrade(): the parent scope, 0 for None
NoParent(tab, s) == 0
Parent(tab, s) == tab[s].parent

\* SymbolTable::_resolve_symbol; fuel counts the stack frames left
RECURSIVE _resolve_symbol(_, _, _, _, _, _, _)
_resolve_symbol(tab, s, name, ax, absolute_path, pure, fuel) ==
    IF fuel = 0 THEN Overflow
    ELSE IF name \in ax THEN Err("circular")
    ELSE LET sym == GetSym(tab, s, name) IN
         CASE sym.k = "Alias" ->
                _resolve_symbol(tab, s, sym.to, AliasCallAx(ax, name),
                                absolute_path, pure, fuel - 1)
           [] sym.k = "Final" -> FinalHit(tab, s, name, pure)
           [] OTHER ->
                IF absolute_path
                THEN Err("unknown symbol")
                ELSE IF Parent(tab, s) = 0
                THEN Err("unknown symbol")
                ELSE _resolve_symbol(tab, Parent(tab, s), name, {}, FALSE,
                                     ParentPure(tab[s].closed, pure), fuel - 1)

\* SymbolTable::_resolve_symbol_with_path, from scope s down the path
RECURSIVE _resolve_symbol_with_path(_, _, _, _)
_resolve_symbol_with_path(tab, s, path, fuel) ==
    IF fuel = 0 THEN Overflow
    ELSE IF Len(path) > 1
    THEN IF Child(tab, s, ModuleName(Head(path))) # 0
         THEN _resolve_symbol_with_path(tab, Child(tab, s, ModuleName(Head(path))),
                                        Tail(path), fuel - 1)
         ELSE Err("unknown module")
    ELSE _resolve_symbol(tab, s, Head(path), {}, TRUE, FALSE, fuel - 1)

\* SymbolTable::resolve_symbol_with_path: climb to the root, then descend
RECURSIVE resolve_symbol_with_path(_, _, _, _)
resolve_symbol_with_path(tab, s, path, fuel) ==
    IF fuel = 0 THEN Overflow
    ELSE IF Parent(tab, s) = 0
    THEN _resolve_symbol_with_path(tab, s, path, fuel - 1)
    ELSE resolve_symbol_with_path(tab, Parent(tab, s), path, fuel - 1)

\* the dotted-name dispatch of resolve_symbol
PathFromHere(tab, s, path) == _resolve_symbol_with_path(tab, s, path, MaxDepth)
PathFromRoot(tab, s, path) == resolve_symbol_with_path(tab, s, path, MaxDepth)

\* SymbolTable::resolve_symbol
resolve_symbol(tab, s, name) ==
    IF Len(name) > 1
    THEN PathFromRoot(tab, s, name)
    ELSE _resolve_symbol(tab, s, Head(name), {}, FALSE, FALSE, MaxDepth)

\* the write of a successful resolution: *visited = true on the Final it found
MarkVisited(tab, r) ==
    IF r.ok
    THEN [tab EXCEPT ![r.at].symbols[r.sym].visited = TRUE]
    ELSE tab

----------------------------------------------------------------------------
(* The function resolver *)

RECURSIVE _resolve_function(_, _, _, _, _)
RECURSIVE resolve_function_in(_, _, _, _)

_resolve_function(tab, s, name, ax, fuel) ==
    IF fuel = 0 THEN OverflowFun
    ELSE IF name \in ax THEN ErrFun("circular")
    ELSE LET f == GetFun(tab, s, name) IN
         CASE f.class = "Alias" -> resolve_function_in(tab, s, f.to, fuel - 1)
           [] f.class # "None" -> OkFun(f, s)
           [] OTHER ->
                IF Parent(tab, s) = 0
                THEN ErrFun("unknown function")
                ELSE resolve_function_in(tab, Parent(tab, s), name, fuel - 1)

\* SymbolTable::resolve_function, with the frames left
resolve_function_in(tab, s, name, fuel) ==
    IF fuel = 0 THEN OverflowFun
    ELSE _resolve_function(tab, s, name, {}, fuel - 1)

resolve_function(tab, s, name) == resolve_function_in(tab, s, name, MaxDepth)

----------------------------------------------------------------------------
(* Inserts: the table after the call and the Result *)

insert_symbol_overwrites(tab, s, name, e) ==
    [tab |-> [tab EXCEPT ![s].symbols[name] = Final(e, FALSE)], res |-> OkUnit]
insert_symbol(tab, s, name, e) ==
    IF tab[s].symbols[name].k # "None"
    THEN [tab |-> tab, res |-> Err("duplicate")]
    ELSE [tab |-> [tab EXCEPT ![s].symbols[name] = Final(e, FALSE)], res |-> OkUnit]

insert_function(tab, s, name, f) ==
    IF tab[s].funcs[name].class # "None"
    THEN [tab |-> tab, res |-> Err("duplicate")]
    ELSE [tab |-> [tab EXCEPT ![s].funcs[name] = f], res |-> OkUnit]

insert_alias(tab, s, from, to) ==
    IF tab[s].symbols[from].k # "None"
    THEN [tab |-> tab, res |-> Err("duplicate")]
    ELSE [tab |-> [tab EXCEPT ![s].symbols[from] = Alias(to)], res |-> OkUnit]

insert_funalias(tab, s, from, to) ==
    IF tab[s].funcs[from].class # "None"
    THEN [tab |-> tab, res |-> Err("duplicate")]
    ELSE [tab |-> [tab EXCEPT ![s].funcs[from] = AliasFun(tab[s].name.s, to)],
          res |-> OkUnit]

insert_constant(tab, s, name, value) ==
    IF tab[s].symbols[name].k # "None"
    THEN [tab |-> tab, res |-> Err("duplicate")]
    ELSE IF FrFromStr(value) # NoFr
    THEN [tab |-> [tab EXCEPT ![s].symbols[name] = Final(ConstNode(value), FALSE)],
          res |-> OkUnit]
    ELSE [tab |-> tab, res |-> Err("not an Fr element")]

----------------------------------------------------------------------------
(* The passes *)

\* the record of a call: its name, the scope it ran on, its name argument, the
\* number of scopes before it, and what it returned
Call(op, s, name, n0, res) == [op |-> op, scope |-> s, name |-> name, n0 |-> n0, res |-> res]
NoCall == Call("none", 0, <<>>, 0, OkUnit)

\* the values a defconst may carry, the value of a for range, and the name of
\* the formal or loop variable an application binds
ConstValues == {1, -1}
ForValues == {1}
FormalNames == {"a"}

InitSym ==
    /\ scopes = <<new_root>>
    /\ cur = Root
    /\ counter = 0
    /\ pass = "definitions"
    /\ last = NoCall

Running == pass \in {"definitions", "generator"}
Outcome(res) == IF res.ok THEN pass ELSE IF res = Overflow THEN "crashed" ELSE "aborted"

\* defmodule, in either pass: the ctx becomes the root's child of that name
DefModule(m) ==
    /\ Running
    /\ LET d == derived(scopes, Root, ModuleName(m), FALSE) IN
        /\ scopes' = d.tab
        /\ cur' = d.scope
        /\ last' = Call("derived", Root, <<m>>, Len(scopes), Ok(NoNode, d.scope, ""))
    /\ UNCHANGED <<counter, pass>>
    /\ UNCHANGED evvars

\* the tail of a definition: the table and the record of the insert; an Err
\* leaves the pass through `?`
Inserted(op, name, r) ==
    /\ NumBind(r.tab) <= MaxBind
    /\ scopes' = r.tab
    /\ last' = Call(op, cur, <<name>>, Len(scopes), r.res)
    /\ pass' = Outcome(r.res)
    /\ UNCHANGED <<cur, counter>>
    /\ UNCHANGED evvars

CanInsert == pass = "definitions"

DefColumn(col) ==
    /\ CanInsert
    /\ Inserted("insert_symbol", col,
                insert_symbol(scopes, cur, col, ColumnNode(scopes[cur].name.s, col)))

DefAlias(from, to) ==
    /\ CanInsert
    /\ Inserted("insert_alias", from, insert_alias(scopes, cur, from, to))

DefConst(name, value) ==
    /\ CanInsert
    /\ Inserted("insert_constant", name, insert_constant(scopes, cur, name, value))

Defun(name, pure) ==
    /\ CanInsert
    /\ Inserted("insert_function", name,
                insert_function(scopes, cur, name, UserFun(scopes[cur].name.s, pure)))

DefunAlias(from, to) ==
    /\ CanInsert
    /\ Inserted("insert_funalias", from, insert_funalias(scopes, cur, from, to))

\* generator::pass starts from the root once definitions::pass is over
StartGenerator ==
    /\ pass = "definitions"
    /\ pass' = "generator"
    /\ cur' = Root
    /\ last' = NoCall
    /\ UNCHANGED <<scopes, counter>>
    /\ UNCHANGED evvars

\* reduce of Token::Symbol
ReduceSymbol(q) ==
    /\ pass = "generator"
    /\ LET r == resolve_symbol(scopes, cur, q) IN
        /\ scopes' = MarkVisited(scopes, r)
        /\ last' = Call("resolve_symbol", cur, q, Len(scopes), r)
        /\ pass' = Outcome(r)
    /\ UNCHANGED <<cur, counter>>
    /\ UNCHANGED evvars

\* reduce of Token::Value(x)
ReduceValue(x) ==
    /\ pass = "generator"
    /\ last' = Call("reduce", cur, <<>>, Len(scopes), Ok(ConstNode(x), 0, ""))
    /\ UNCHANGED <<scopes, cur, counter, pass>>
    /\ UNCHANGED evvars

\* reduce of Token::List, up to the resolution of its verb
ReduceVerb(f) ==
    /\ pass = "generator"
    /\ LET r == resolve_function(scopes, cur, f) IN
        /\ last' = Call("resolve_function", cur, <<f>>, Len(scopes), r)
        /\ pass' = Outcome(r)
    /\ UNCHANGED <<scopes, cur, counter>>
    /\ UNCHANGED evvars

\* the reduced arguments a call can pass: a literal, or the node just resolved
ArgNodes ==
    {ConstNode(1)} \cup
        {ColumnNode(m, n) : m \in ModNames \cup {MAIN_MODULE}, n \in Names}

\* the arguments are reduced in the caller's scope before the call: a literal,
\* or the symbol just resolved
IsReduced(arg) ==
    \/ arg = ConstNode(1)
    \/ last.op = "resolve_symbol" /\ last.res.ok /\ arg = last.res.node

\* apply of a user-defined function of one formal, up to the reduction of its body
ApplyFn(pure, formal, arg) ==
    /\ pass = "generator"
    /\ counter < MaxCalls
    /\ IsReduced(arg)
    /\ LET d == derived(scopes, cur, FnName(counter), pure)
           r == insert_symbol(d.tab, d.scope, formal, arg) IN
        /\ scopes' = r.tab
        /\ cur' = d.scope
        /\ last' = Call("apply", cur, <<formal>>, Len(scopes), r.res)
        /\ pass' = Outcome(r.res)
    /\ counter' = counter + 1
    /\ UNCHANGED evvars

\* apply_form of Form::For, for one value of the range, up to the reduction of its body
ApplyFor(i_name, i) ==
    /\ pass = "generator"
    /\ counter < MaxCalls
    /\ LET d == derived(scopes, cur, ForName(counter), FALSE)
           r == insert_symbol(d.tab, d.scope, i_name, ConstNode(i)) IN
        /\ scopes' = r.tab
        /\ cur' = d.scope
        /\ last' = Call("apply_form", cur, <<i_name>>, Len(scopes), r.res)
        /\ pass' = Outcome(r.res)
    /\ counter' = counter + 1
    /\ UNCHANGED evvars

----------------------------------------------------------------------------
(* The constraint set: columns, expressions, the computation table *)

TraceCols == {"A", "B"}

\* Column<Fr>: its value, absent until the trace or a computation gives one
NoValue == [set |-> FALSE, v |-> <<>>]
Value(v) == [set |-> TRUE, v |-> v]

\* Column::is_computed
is_computed(col) == col.set

\* Column::len, absent when the column has no value
NoLen == -1
len(col) == IF col.set THEN Len(col.v) ELSE NoLen

\* Column::get(i, wrap = false): None out of the rows of the column
get(col, i) ==
    IF col.set /\ 0 <= i /\ i < Len(col.v) THEN col.v[i + 1] ELSE NoFr

\* Column::set_value on the column h of the set, with the write it makes
\* appended to the log of writes
set_value(cs, h, v) ==
    [cs EXCEPT !.modules[h] = Value(v),
               !.log = Append(@, [col |-> h, old |-> cs.modules[h], new |-> Value(v)])]

\* enum Magma: Boolean is below Integer
Boolean == "Boolean"
Integer == "Integer"
Magma == {Boolean, Integer}
magma_max(a, b) == IF a = Integer \/ b = Integer THEN Integer ELSE Boolean

\* enum Type: a scale and a magma
Void == [scale |-> "Void", magma |-> Boolean]
Scalar(m) == [scale |-> "Scalar", magma |-> m]
Column(m) == [scale |-> "Column", magma |-> m]
List(m) == [scale |-> "List", magma |-> m]
Type == {Void} \cup {Scalar(m) : m \in Magma} \cup {Column(m) : m \in Magma}
            \cup {List(m) : m \in Magma}

\* the order of the scales: Column dominates Scalar, List dominates both
scale_rank(s) ==
    CASE s = "Void" -> 0 [] s = "Scalar" -> 1 [] s = "Column" -> 2 [] s = "List" -> 3

\* Type::max: the join, componentwise
max(a, b) ==
    [scale |-> IF scale_rank(a.scale) >= scale_rank(b.scale) THEN a.scale ELSE b.scale,
     magma |-> magma_max(a.magma, b.magma)]

\* Type::INFIMUM, Type::magma, Type::same_scale and the predicates of a Type
INFIMUM == Scalar(Boolean)
magma(t) == t.magma
same_scale(t, m) == [t EXCEPT !.magma = m]
is_bool(t) == t.magma = Boolean
is_scalar(t) == t.scale = "Scalar"
is_column(t) == t.scale = "Column"
is_value(t) == is_scalar(t) \/ is_column(t)

\* argtype.iter().fold(Type::INFIMUM, |a, b| a.max(b))
fold_max(argtype) ==
    LET F[k \in 0..Len(argtype)] ==
            IF k = 0 THEN INFIMUM ELSE max(F[k - 1], argtype[k])
    IN  F[Len(argtype)]

\* enum Builtin
Builtin ==
    {"Add", "Sub", "Mul", "Exp", "Shift", "Neg", "Inv", "Not", "Nth", "Eq",
     "Begin", "IfZero", "IfNotZero", "ByteDecomposition"}

\* the arm of Add, Sub, Neg and Inv in Builtin::typing: {0, 1} is not closed
\* under them, a Boolean scalar or column becomes an Integer one
unpromoted(x) == x
promoted(x) ==
    IF x = Scalar(Boolean) THEN Scalar(Integer)
    ELSE IF x = Column(Boolean) THEN Column(Integer)
    ELSE x

\* Builtin::typing
typing(b, argtype) ==
    CASE b \in {"Add", "Sub", "Neg", "Inv"} -> promoted(fold_max(argtype))
      [] b = "Exp" -> argtype[1]
      [] b = "Eq" -> fold_max(argtype)
      [] b = "Not" -> same_scale(fold_max(argtype), Boolean)
      [] b = "Mul" -> fold_max(argtype)
      [] b \in {"IfZero", "IfNotZero"} ->
            max(argtype[2], IF Len(argtype) >= 3 THEN argtype[3] ELSE INFIMUM)
      [] b = "Begin" -> List(magma(fold_max(argtype)))
      [] b \in {"Shift", "Nth"} -> argtype[1]
      [] b = "ByteDecomposition" -> Void

\* enum Expression: Const, Column with its type, List and Funcall of a
\* Builtin; a column declared without a type is a column of integers
EConst(x) ==
    [e |-> "Const", v |-> x, fr |-> FrFromStr(x), h |-> "", args |-> <<>>, t |-> Void]
TColumn(h, ty) ==
    [e |-> "Column", v |-> 0, fr |-> NoFr, h |-> h, args |-> <<>>, t |-> ty]
EColumn(h) == TColumn(h, Column(Integer))
EList(xs) == [e |-> "List", v |-> 0, fr |-> NoFr, h |-> "", args |-> xs, t |-> Void]
Funcall(func, args) ==
    [e |-> func, v |-> 0, fr |-> NoFr, h |-> "", args |-> args, t |-> Void]

\* Expression::t
RECURSIVE t(_)
t(exp) ==
    LET ts == [k \in 1..Len(exp.args) |-> t(exp.args[k])]
    IN  CASE exp.e = "Const" ->
                IF exp.v = 0 \/ exp.v = 1 THEN Scalar(Boolean) ELSE Scalar(Integer)
          [] exp.e = "Column" -> exp.t
          [] exp.e = "List" -> List(magma(fold_max(ts)))
          [] OTHER -> typing(exp.e, ts)

\* Expression::dependencies: the columns at the leaves
RECURSIVE dependencies(_)
dependencies(exp) ==
    IF exp.e = "Column" THEN {exp.h}
    ELSE UNION {dependencies(exp.args[k]) : k \in 1..Len(exp.args)}

\* Fr arithmetic on canonical representatives
FrAdd(x, y) == (x + y) % FrModulus
FrSub(x, y) == (x - y + FrModulus) % FrModulus
FrMul(x, y) == (x * y) % FrModulus

\* the Eq arm of Expression::eval on two booleans: 1 - (/A + B)x(A + /B)
eq_sub(x, y) == FrSub(x, y)
eq_bool(x, y) ==
    LET ax == FrAdd(FrSub(1, x), y)
        bx == FrAdd(FrSub(1, y), x)
    IN  FrSub(1, FrMul(ax, bx))

\* Result<BigInt> of Expression::pure_eval
Known(x) == [ok |-> TRUE, v |-> x]
NotKnown == [ok |-> FALSE, v |-> 0]

\* Expression::pure_eval: the value of an expression known at compile time
RECURSIVE pure_eval(_)
pure_eval(exp) ==
    LET n == Len(exp.args)
        arg(k) == pure_eval(exp.args[k])
        known == \A k \in 1..n : arg(k).ok
        Sum[k \in 0..n] == IF k = 0 THEN 0 ELSE Sum[k - 1] + arg(k).v
        Prod[k \in 0..n] == IF k = 0 THEN 1 ELSE Prod[k - 1] * arg(k).v
        Diff[k \in 1..n] == IF k = 1 THEN arg(1).v ELSE Diff[k - 1] - arg(k).v
    IN  CASE exp.e = "Const" -> Known(exp.v)
          [] exp.e = "Add" -> IF known THEN Known(Sum[n]) ELSE NotKnown
          [] exp.e = "Sub" -> IF known THEN Known(Diff[n]) ELSE NotKnown
          [] exp.e = "Mul" -> IF known THEN Known(Prod[n]) ELSE NotKnown
          [] exp.e = "Neg" -> IF known THEN Known(0 - arg(1).v) ELSE NotKnown
          [] OTHER -> NotKnown

\* Fr::negate and Fr::inverse (None for 0, here NoFr)
FrNeg(x) == (FrModulus - x) % FrModulus
FrInverse(x) ==
    IF x = 0 THEN NoFr ELSE CHOOSE y \in 1..(FrModulus - 1) : FrMul(x, y) = 1

\* the Inv arm of Expression::eval on the value x of its argument, None
\* included: with a cache, x.map over the cached inverse-or-zero; with none,
\* x.and_then(inverse).or_else(Some(0))
inv_uncached(x) ==
    IF x = NoFr \/ FrInverse(x) = NoFr THEN 0 ELSE FrInverse(x)
inv_cached(x) ==
    IF x = NoFr THEN NoFr
    ELSE IF FrInverse(x) = NoFr THEN 0 ELSE FrInverse(x)

\* Expression::eval at row i, reading the columns of cols, with an inversion
\* cache (cached) or with None for it; NoFr is None. An exponent or a shift
\* that pure_eval does not know is not among the expressions evaluated.
RECURSIVE eval_with(_, _, _, _)
eval_with(exp, i, cols, cached) ==
    LET arg(k) == eval_with(exp.args[k], i, cols, cached)
        n == Len(exp.args)
        none == \E k \in 1..n : arg(k) = NoFr
        Fold[k \in 0..n] ==
            IF k = 0
            THEN IF exp.e = "Mul" THEN 1 ELSE 0
            ELSE IF exp.e = "Mul" THEN FrMul(Fold[k - 1], arg(k))
                 ELSE FrAdd(Fold[k - 1], arg(k))
        Minus[k \in 1..n] ==
            IF k = 1 THEN arg(1) ELSE FrSub(Minus[k - 1], arg(k))
        Pow[k \in 0..pure_eval(exp.args[2]).v] ==
            IF k = 0 THEN 1 ELSE FrMul(Pow[k - 1], arg(1))
        NonZero == {k \in 1..n : arg(k) # NoFr /\ arg(k) # 0}
        second == IF n >= 3 THEN arg(3) ELSE 0
    IN  CASE exp.e = "Const" -> exp.fr
          [] exp.e = "Column" -> get(cols[exp.h], i)
          [] exp.e \in {"Add", "Mul"} -> IF none THEN NoFr ELSE Fold[n]
          [] exp.e = "Sub" -> IF none THEN NoFr ELSE Minus[n]
          [] exp.e = "Exp" ->
                IF arg(1) = NoFr THEN NoFr ELSE Pow[pure_eval(exp.args[2]).v]
          [] exp.e = "Shift" ->
                eval_with(exp.args[1], i + pure_eval(exp.args[2]).v, cols, cached)
          [] exp.e = "Eq" ->
                IF none THEN NoFr
                ELSE IF is_bool(t(exp.args[1])) /\ is_bool(t(exp.args[2]))
                     THEN eq_bool(arg(1), arg(2))
                     ELSE FrSub(arg(1), arg(2))
          [] exp.e = "Neg" -> IF arg(1) = NoFr THEN NoFr ELSE FrNeg(arg(1))
          [] exp.e = "Inv" ->
                IF cached THEN inv_cached(arg(1)) ELSE inv_uncached(arg(1))
          [] exp.e = "Not" -> IF arg(1) = NoFr THEN NoFr ELSE FrSub(1, arg(1))
          [] exp.e = "IfZero" ->
                IF arg(1) = NoFr THEN NoFr
                ELSE IF arg(1) = 0 THEN arg(2) ELSE second
          [] exp.e = "IfNotZero" ->
                IF arg(1) = NoFr THEN NoFr
                ELSE IF arg(1) # 0 THEN arg(2) ELSE second
          [] exp.e = "List" ->
                IF NonZero = {} THEN 0
                ELSE arg(CHOOSE k \in NonZero : \A l \in NonZero : k <= l)
          [] OTHER -> NoFr

\* eval as compute_composite and padding_value_for call it: &mut None for
\* the cache
eval(exp, i, cols) == eval_with(exp, i, cols, FALSE)

----------------------------------------------------------------------------
(* The reducer: apply on a call of a Builtin *)

\* Builtin::call and Builtin::call_t
call(b, args) == Funcall(b, args)
call_t(b, args) ==
    [exp |-> Funcall(b, args), t |-> typing(b, [k \in 1..Len(args) |-> t(args[k])])]

\* Expression::one
one == EConst(1)

\* Builtin::arity, with Arity::validate: the numbers of arguments accepted
arity_validate(b, l) ==
    CASE b \in {"Add", "Sub", "Mul"} -> l >= 2
      [] b \in {"Exp", "Eq", "Shift", "Nth"} -> l = 2
      [] b \in {"Neg", "Inv", "Not"} -> l = 1
      [] b = "Begin" -> l >= 1
      [] b \in {"IfZero", "IfNotZero"} -> l >= 2 /\ l <= 3
      [] b = "ByteDecomposition" -> l = 3

\* Builtin::validate_types; no expression here is an ArrayColumn, the only
\* first argument Nth accepts
validate_types(b, args) ==
    CASE b \in {"Add", "Sub", "Mul", "Eq", "Neg", "Inv"} ->
            \A k \in 1..Len(args) : is_value(t(args[k]))
      [] b = "Exp" -> is_value(t(args[1])) /\ is_scalar(t(args[2]))
      [] b = "Not" -> is_bool(t(args[1]))
      [] b = "Shift" -> is_column(t(args[1])) /\ is_scalar(t(args[2]))
      [] b = "Nth" -> FALSE
      [] b \in {"IfZero", "IfNotZero"} -> args[1].e # "List"
      [] b = "Begin" -> TRUE
      [] b = "ByteDecomposition" ->
            args[1].e = "Column" /\ args[2].e = "Const" /\ args[3].e = "Const"

\* FuncVerifier::validate_args: the arity, then the types
validate_args(b, args) == arity_validate(b, Len(args)) /\ validate_types(b, args)

\* the fold of the Begin arm of apply: the elements of a list argument are
\* spliced in
flatten(args) ==
    LET F[k \in 0..Len(args)] ==
            IF k = 0 THEN <<>>
            ELSE IF args[k].e = "List" THEN F[k - 1] \o args[k].args
                 ELSE Append(F[k - 1], args[k])
    IN  F[Len(args)]

\* Result<Option<(Expression, Type)>>, kept with the call that returned it
NoApply ==
    [op |-> "", args |-> <<>>, ok |-> TRUE, some |-> FALSE, exp |-> EList(<<>>),
     t |-> Void]
CallErr(b, ta) == [NoApply EXCEPT !.op = b, !.args = ta, !.ok = FALSE]
CallNone(b, ta) == [NoApply EXCEPT !.op = b, !.args = ta]
CallSome(b, ta, r) ==
    [op |-> b, args |-> ta, ok |-> TRUE, some |-> TRUE, exp |-> r.exp, t |-> r.t]

\* the Eq arm of apply
apply_eq(x, y, tx, ty) ==
    IF is_bool(tx) /\ is_bool(ty)
    THEN call_t("Sub",
                <<one,
                  call("Mul", <<call("Add", <<call("Sub", <<one, y>>), x>>),
                                call("Add", <<call("Sub", <<one, x>>), y>>)>>)>>)
    ELSE call_t("Sub", <<x, y>>)

\* apply, on a Builtin b and its arguments as reduce returned them
apply(b, ta) ==
    LET traversed_args == [k \in 1..Len(ta) |-> ta[k].exp]
        traversed_args_t == [k \in 1..Len(ta) |-> ta[k].t]
    IN  IF ~validate_args(b, traversed_args) THEN CallErr(b, ta)
        ELSE CASE b = "Begin" ->
                    CallSome(b, ta, [exp |-> EList(flatten(traversed_args)),
                                     t |-> fold_max(traversed_args_t)])
               [] b = "ByteDecomposition" -> CallNone(b, ta)
               [] b = "Not" ->
                    CallSome(b, ta, call_t("Sub", <<one, traversed_args[1]>>))
               [] b = "Eq" ->
                    CallSome(b, ta, apply_eq(traversed_args[1], traversed_args[2],
                                             traversed_args_t[1], traversed_args_t[2]))
               [] OTHER -> CallSome(b, ta, call_t(b, traversed_args))

\* how many arguments a call is given
MaxArgs == 3

\* what reduce returns for a Token::Value and for a Token::Symbol that is a
\* column: the expression and its type
reduce_value(x) ==
    [exp |-> EConst(x),
     t |-> IF x >= 0 /\ x <= 1 THEN Scalar(Boolean) ELSE Scalar(Integer)]
reduce_column(h, ty) == [exp |-> TColumn(h, ty), t |-> ty]
Atoms ==
    {reduce_value(0), reduce_value(1), reduce_value(2),
     reduce_column("X", Column(Boolean)),
     reduce_column("Y", Column(Boolean)), reduce_column("B", Column(Integer))}

\* the arguments a call counts for: its own, and past the first those of
\* the call that is its first argument
weight(ta) ==
    IF ta = <<>> \/ Head(ta).exp.args = <<>> THEN Len(ta)
    ELSE Len(ta) + Len(Head(ta).exp.args) - 1

\* apply reduces one more argument of the call, an atom
Traverse(a) ==
    /\ weight(targs) < MaxArgs
    /\ targs' = Append(targs, a)
    /\ reduced' = NoApply
    /\ UNCHANGED <<symvars, modules, ct, nexti, wlog, elog, pads, auxvars>>

\* the first argument of a call is itself a call, of atoms, which apply has
\* reduced to Some
TraverseCall ==
    /\ targs = <<>>
    /\ reduced.ok /\ reduced.some
    /\ \A k \in 1..Len(reduced.args) : reduced.args[k] \in Atoms
    /\ targs' = <<[exp |-> reduced.exp, t |-> reduced.t]>>
    /\ reduced' = NoApply
    /\ UNCHANGED <<symvars, modules, ct, nexti, wlog, elog, pads, auxvars>>

\* apply on the Builtin b, once its arguments are reduced
Apply(b) ==
    /\ reduced = NoApply
    /\ reduced' = apply(b, targs)
    /\ targs' = <<>>
    /\ UNCHANGED <<symvars, modules, ct, nexti, wlog, elog, pads, auxvars>>


\* enum Computation
Composite(target, exp) ==
    [kind |-> "Composite", target |-> target, exp |-> exp, froms |-> <<>>, tos |-> <<>>]
Interleaved(target, froms) ==
    [kind |-> "Interleaved", target |-> target, exp |-> EConst(0), froms |-> froms,
     tos |-> <<>>]
Sorted(froms, tos) ==
    [kind |-> "Sorted", target |-> "", exp |-> EConst(0), froms |-> froms, tos |-> tos]

\* struct ComputationTable: the computations, and for each target the index
\* of its computation (0 for a column that is no target)
NoDep == 0
NewTable == [computations |-> <<>>, dependencies |-> [c \in ColNames |-> NoDep]]

\* ComputationTable::insert
insert(table, target, computation) ==
    IF table.dependencies[target] # NoDep
    THEN [ct |-> table, ok |-> FALSE]
    ELSE [ct |-> [computations |-> Append(table.computations, computation),
                  dependencies |-> [table.dependencies EXCEPT
                                       ![target] = Len(table.computations) + 1]],
          ok |-> TRUE]

\* ComputationTable::insert_many
insert_many(table, targets, computation) ==
    [ct |-> [computations |-> Append(table.computations, computation),
             dependencies |->
                 [c \in ColNames |->
                     IF \E k \in 1..Len(targets) : targets[k] = c
                     THEN Len(table.computations) + 1
                     ELSE table.dependencies[c]]],
     ok |-> TRUE]


----------------------------------------------------------------------------
(* The evaluator: ConstraintSet::compute_all and what it calls *)

\* a ConstraintSet under evaluation: its columns, its computation table and
\* the writes made to its columns so far
ConstraintSet(cols, table) == [modules |-> cols, computations |-> table, log |-> <<>>]

\* Result<()> and Result<Vec<Fr>> of the evaluator, with the set as it is left
Done(cs) == [cs |-> cs, err |-> "", values |-> <<>>]
Values(cs, v) == [cs |-> cs, err |-> "", values |-> v]
Failed(cs, e) == [cs |-> cs, err |-> e, values |-> <<>>]
Crashed(cs) == Failed(cs, "stack overflow")

\* the order in which a HashSet of handles is iterated: one of two
ColOrder == <<"A", "B", "X", "Y", "K", "I", "NOT">>
Reverse(s) == [k \in 1..Len(s) |-> s[Len(s) + 1 - k]]
IterOrder(set, rev) ==
    LET up == SelectSeq(ColOrder, LAMBDA c : c \in set)
    IN  IF rev THEN Reverse(up) ELSE up

\* into_par_iter().map().collect(): the rows are produced by workers in the
\* order sched gives (rows beyond sched come last) and each lands in its slot
RECURSIVE Gather(_, _, _)
Gather(slots, order, rows) ==
    IF order = <<>> THEN slots
    ELSE Gather([slots EXCEPT ![Head(order)] = rows[Head(order)]], Tail(order), rows)

Collect(rows, n, sched) ==
    LET first == SelectSeq(sched, LAMBDA r : r <= n)
        rest == [k \in 1..(IF n > Len(sched) THEN n - Len(sched) ELSE 0) |->
                    Len(sched) + k]
    IN  Gather([k \in 1..n |-> NoFr], first \o rest, rows)

Max(S) == CHOOSE x \in S : \A y \in S : y <= x

\* a comparator that looks at the first column only
CmpFirst(cols, froms, i, j) ==
    IF get(cols[froms[1]], i) = get(cols[froms[1]], j) THEN 0
    ELSE IF get(cols[froms[1]], i) < get(cols[froms[1]], j) THEN -1 ELSE 1

\* the comparator of sort_by in compute_sorted: rows i and j of the froms,
\* compared column by column
Cmp(cols, froms, i, j) ==
    LET diff == {k \in 1..Len(froms) :
                    get(cols[froms[k]], i) # get(cols[froms[k]], j)}
        k == CHOOSE d \in diff : \A d2 \in diff : d <= d2
    IN  IF diff = {} THEN 0
        ELSE IF get(cols[froms[k]], i) < get(cols[froms[k]], j) THEN -1 ELSE 1

\* sort_by is stable: row x goes behind every row that is not greater
InsertRow(s, x, cols, froms) ==
    LET p == Cardinality({k \in 1..Len(s) : Cmp(cols, froms, s[k], x) <= 0})
    IN  SubSeq(s, 1, p) \o <<x>> \o SubSeq(s, p + 1, Len(s))

sorted_is(cols, froms, n) ==
    LET S[k \in 0..n] ==
            IF k = 0 THEN <<>> ELSE InsertRow(S[k - 1], k - 1, cols, froms)
    IN  S[n]

\* windows(2).all(|w| w[0] == w[1]) on the lengths of the columns
SameLengths(cols, hs) ==
    \A k \in 1..(Len(hs) - 1) : len(cols[hs[k]]) = len(cols[hs[k + 1]])

RECURSIVE compute_column(_, _, _, _)
RECURSIVE compute(_, _, _, _)
RECURSIVE compute_each(_, _, _, _)
RECURSIVE write_sorted(_, _, _, _, _)

\* for c in targets { self.compute_column(c)? }
compute_each(cs, targets, par, fuel) ==
    IF targets = <<>> THEN Done(cs)
    ELSE LET r == compute_column(cs, Head(targets), par, fuel)
         IN  IF r.err # "" THEN r
             ELSE compute_each(r.cs, Tail(targets), par, fuel)

\* ConstraintSet::compute_composite
compute_composite(cs, exp, par, fuel) ==
    IF fuel = 0 THEN Crashed(cs)
    ELSE LET r == compute_each(cs, IterOrder(dependencies(exp), par.rev), par,
                               fuel - 1)
             cols == r.cs.modules
             length == Max({len(cols[h]) : h \in dependencies(exp)})
             rows == [k \in 1..length |->
                         IF eval(exp, k - 1, cols) = NoFr THEN 0
                         ELSE eval(exp, k - 1, cols)]
         IN  IF r.err # "" THEN r
             ELSE Values(r.cs, Collect(rows, length, par.sched))

\* the row and the source of the value at index k of an interleaved column
row_of(k, count) == k \div count
col_of_row(k, count) == (k \div count) % count
col_of(k, count) == k % count

\* ConstraintSet::compute_interleaved
compute_interleaved(cs, froms, par, fuel) ==
    IF fuel = 0 THEN Crashed(cs)
    ELSE LET r == compute_each(cs, froms, par, fuel - 1)
             cols == r.cs.modules
             count == Len(froms)
             n == len(cols[froms[1]]) * count
             rows == [k \in 1..n |->
                         get(cols[froms[col_of(k - 1, count) + 1]],
                             row_of(k - 1, count))]
         IN  IF r.err # "" THEN r
             ELSE IF ~SameLengths(cols, froms)
             THEN Failed(r.cs, "interleaving columns of incoherent lengths")
             ELSE Values(r.cs, Collect(rows, n, par.sched))

\* the last loop of compute_sorted: tos[k] receives froms[k] read, as it is
\* by then, in the order of the permutation
write_sorted(cs, froms, tos, perm, k) ==
    IF k > Len(froms) THEN cs
    ELSE write_sorted(
             set_value(cs, tos[k],
                       [r \in 1..Len(perm) |-> get(cs.modules[froms[k]], perm[r])]),
             froms, tos, perm, k + 1)

\* ConstraintSet::compute_sorted
compute_sorted(cs, froms, tos, par, fuel) ==
    IF fuel = 0 THEN Crashed(cs)
    ELSE LET r == compute_each(cs, froms, par, fuel - 1)
             cols == r.cs.modules
             perm == sorted_is(cols, froms, len(cols[froms[1]]))
         IN  IF r.err # "" THEN r
             ELSE IF ~SameLengths(cols, froms)
             THEN Failed(r.cs, "sorted columns of incoherent lengths")
             ELSE Done(write_sorted(r.cs, froms, tos, perm, 1))

\* ConstraintSet::compute
compute(cs, i, par, fuel) ==
    LET comp == cs.computations.computations[i]
        r == IF comp.kind = "Composite"
             THEN compute_composite(cs, comp.exp, par, fuel - 1)
             ELSE compute_interleaved(cs, comp.froms, par, fuel - 1)
    IN  IF fuel = 0 THEN Crashed(cs)
        ELSE IF comp.kind = "Sorted"
        THEN compute_sorted(cs, comp.froms, comp.tos, par, fuel - 1)
        ELSE IF is_computed(cs.modules[comp.target]) THEN Done(cs)
        ELSE IF r.err # "" THEN r
        ELSE Done(set_value(r.cs, comp.target, r.values))

\* ConstraintSet::compute_column
compute_column(cs, target, par, fuel) ==
    IF fuel = 0 THEN Crashed(cs)
    ELSE IF is_computed(cs.modules[target]) THEN Done(cs)
    ELSE IF cs.computations.dependencies[target] = NoDep
    THEN Failed(cs, "no computations found")
    ELSE compute(cs, cs.computations.dependencies[target], par, fuel - 1)


----------------------------------------------------------------------------
(* The column declarations, the computation table and the evaluator run *)

\* the declared kinds: K = X + 1 is composite, I interleaves K and B
KExp == Funcall("Add", <<EColumn("X"), EConst(1)>>)
IFroms == <<"K", "B">>
ColumnDecls == {<<"A", "B">>, <<"A", "B", "K">>, <<"A", "B", "K", "I">>}
PermDecls == {[tos |-> <<"X">>, froms |-> <<"A">>],
              [tos |-> <<"X">>, froms |-> <<"B">>],
              [tos |-> <<"X", "Y">>, froms |-> <<"A", "B">>],
              [tos |-> <<"B", "X">>, froms |-> <<"A", "B">>],
              [tos |-> <<"X", "Y">>, froms |-> <<"A">>]}
ColumnComputations == {Composite("K", KExp), Interleaved("I", IFroms)}

\* the columns a trace file gives a column: none, or one of these
Vectors == {<<1, 0>>, <<0, 1>>, <<1, 1>>, <<2>>, <<3, 1, 2>>}
TraceChoices == {NoValue} \cup {Value(v) : v \in Vectors}

\* the orders in which the row workers may deliver: the rows in turn,
\* starting from any one of them
Scheds == {[i \in 1..MaxRows |-> ((i + k - 1) % MaxRows) + 1] : k \in 0..(MaxRows - 1)}

\* the first error of two results
First(a, b) == IF a.ok THEN b ELSE a

\* resolve_symbol on each name in turn, up to the first error
RECURSIVE resolve_all(_, _, _)
resolve_all(tab, s, names) ==
    IF names = <<>> THEN [tab |-> tab, res |-> OkUnit]
    ELSE LET r == resolve_symbol(tab, s, <<Head(names)>>)
         IN  IF r.ok THEN resolve_all(MarkVisited(tab, r), s, Tail(names))
             ELSE [tab |-> tab, res |-> r]

\* reduce of Token::DefColumn in the definitions pass: an interleaved column
\* resolves its sources first
declare_column(tab, s, col) ==
    LET r == IF col = "I" THEN resolve_all(tab, s, IFroms)
             ELSE [tab |-> tab, res |-> OkUnit]
    IN  IF r.res.ok
        THEN insert_symbol(r.tab, s, col, ColumnNode(tab[s].name.s, col))
        ELSE r

\* reduce of Token::DefColumns: every column is reduced, the first error is
\* the result
RECURSIVE declare_columns(_, _, _, _)
declare_columns(tab, s, cols, ax) ==
    IF cols = <<>> THEN [tab |-> tab, res |-> ax]
    ELSE LET r == declare_column(tab, s, Head(cols))
         IN  declare_columns(r.tab, s, Tail(cols), First(ax, r.res))

DefColumns(cols) ==
    /\ pass = "definitions"
    /\ LET r == declare_columns(scopes, cur, cols, OkUnit) IN
        /\ scopes' = r.tab
        /\ last' = Call("defcolumns", cur, <<>>, Len(scopes), r.res)
        /\ pass' = Outcome(r.res)
    /\ UNCHANGED <<cur, counter, evvars>>

\* the pairs of a permutation: each from must resolve, each to is declared
\* a column, and an already declared to is only warned about
RECURSIVE declare_permutation(_, _, _, _)
declare_permutation(tab, s, tos, froms) ==
    IF tos = <<>> THEN [tab |-> tab, res |-> OkUnit]
    ELSE LET r == resolve_symbol(tab, s, <<Head(froms)>>)
             d == insert_symbol(MarkVisited(tab, r), s, Head(tos),
                                PhantomNode(tab[s].name.s, Head(tos)))
         IN  IF r.ok THEN declare_permutation(d.tab, s, Tail(tos), Tail(froms))
             ELSE [tab |-> tab, res |-> r]

\* reduce of Token::DefPermutation in the definitions pass
DefPermutation(tos, froms) ==
    /\ pass = "definitions"
    /\ Len(ct.computations) < MaxPerm
    /\ LET r == IF Len(tos) # Len(froms)
                THEN [tab |-> scopes, res |-> Err("cardinality mismatch")]
                ELSE declare_permutation(scopes, cur, tos, froms) IN
        /\ scopes' = r.tab
        /\ last' = Call("defpermutation", cur, <<>>, Len(scopes), r.res)
        /\ pass' = Outcome(r.res)
        /\ ct' = IF r.res.ok THEN insert_many(ct, tos, Sorted(froms, tos)).ct
                 ELSE ct
    /\ UNCHANGED <<cur, counter, modules, nexti, wlog, elog, pads,
                 targs, reduced, auxvars>>

IsDeclared(h) == resolve_symbol(scopes, cur, <<h>>).ok

\* the columns a computation reads and writes
Mentions(comp) ==
    IF comp.kind = "Composite" THEN {comp.target} \cup dependencies(comp.exp)
    ELSE {comp.target} \cup {comp.froms[k] : k \in 1..Len(comp.froms)}

\* ComputationTable::insert of the computation of a declared composite or
\* interleaved column, once the definitions are read
InsertComputation(comp) ==
    /\ pass = "generator"
    /\ Len(ct.computations) < MaxComp
    /\ \A h \in Mentions(comp) : IsDeclared(h)
    /\ ct' = insert(ct, comp.target, comp).ct
    /\ pass' = IF insert(ct, comp.target, comp).ok THEN pass ELSE "aborted"
    /\ last' = Call("insert", cur, <<comp.target>>, Len(scopes),
                    IF insert(ct, comp.target, comp).ok THEN OkUnit
                    ELSE Err("duplicate"))
    /\ UNCHANGED <<scopes, cur, counter, modules, nexti, wlog, elog, pads,
                 targs, reduced, auxvars>>

\* fill_traces: the trace file gives the declared atomic columns their rows
\* (the rows b are those of B, and of NOT)
FillTrace(a, b) ==
    /\ pass = "generator"
    /\ modules' = [modules EXCEPT
                      !["A"] = IF IsDeclared("A") THEN a ELSE @,
                      !["B"] = IF IsDeclared("B") THEN b ELSE @,
                      !["NOT"] = IF IsDeclared("NOT") THEN b ELSE @]
    /\ pass' = "computing"
    /\ last' = NoCall
    /\ UNCHANGED <<scopes, cur, counter, ct, nexti, wlog, elog, pads,
                 targs, reduced, auxvars>>

\* what compute_all does with the error of one computation: if let Err(e)
\* warns and falls through to the next turn of the loop
ErrReturned(p) == "aborted"
ErrWarned(p) == p

\* ConstraintSet::compute_all, one turn of its loop at a time: the error of
\* a computation is logged and the loop goes on
ComputeAll(sched, rev) ==
    /\ pass = "computing"
    /\ IF nexti > Len(ct.computations)
       THEN /\ pass' = "done"
            /\ UNCHANGED <<modules, nexti, wlog, elog>>
       ELSE LET r == compute(ConstraintSet(modules, ct), nexti,
                             [sched |-> sched, rev |-> rev], MaxDepth) IN
            /\ modules' = r.cs.modules
            /\ wlog' = wlog \o r.cs.log
            /\ elog' = IF r.err # "" THEN Append(elog, [i |-> nexti, err |-> r.err])
                       ELSE elog
            /\ nexti' = nexti + 1
            /\ pass' = IF r.err = "stack overflow" THEN "crashed"
                        ELSE IF r.err # "" THEN ErrWarned(pass)
                        ELSE pass
    /\ UNCHANGED <<scopes, cur, counter, last, ct, pads,
                 targs, reduced, auxvars>>

InitEval ==
    /\ modules = [c \in ColNames |-> NoValue]
    /\ ct = NewTable
    /\ nexti = 1
    /\ wlog = <<>>
    /\ elog = <<>>
    /\ pads = <<>>
    /\ targs = <<>>
    /\ reduced = NoApply


----------------------------------------------------------------------------
(* Padding: ConstraintSet::pad and the padding value of a column *)

\* the padding strategies, and how many times a run pads
PaddingStrategy == {"Full", "OneLine", "None"}
MaxPads == 2

\* Fr::from_str("255"), scaled down with the field
Fr255 == 5

\* the module whose NOT column is padded with 255
BINARY == "binary"

\* ColumnSet::handles: the columns a scope of the source declares
handles ==
    {h \in ColNames : \E i \in 1..Len(scopes) : scopes[i].symbols[h].k = "Final"}

\* the handles equal to Handle::new("binary", "NOT")
binary_not ==
    {h \in {"NOT"} : \E i \in 1..Len(scopes) :
        /\ scopes[i].name = ModuleName(BINARY)
        /\ scopes[i].symbols[h].k = "Final"}

\* ColumnSet::max_len
max_len(cols) == Max({len(cols[c]) : c \in ColNames} \cup {0})

\* usize::next_power_of_two
next_power_of_two(n) ==
    LET pows == {2 ^ k : k \in 0..8}
    IN  CHOOSE p \in pows : p >= n /\ \A q \in pows : q >= n => p <= q

\* xs.reverse(); xs.resize(pad_to, x); xs.reverse()
resize_front(xs, pad_to, x) ==
    IF Len(xs) >= pad_to THEN SubSeq(xs, Len(xs) - pad_to + 1, Len(xs))
    ELSE [k \in 1..(pad_to - Len(xs)) |-> x] \o xs

\* Column::map: f applied to the value, when there is one
zero_padded(col, pad_to) ==
    IF col.set THEN Value(resize_front(col.v, pad_to, 0)) ELSE col

\* the first rows of the NOT column overwritten with 255
not_padded(col, n) ==
    IF col.set THEN Value([k \in 1..Len(col.v) |-> IF k <= n THEN Fr255 ELSE col.v[k]])
    ELSE col

\* the Kind of a column is Composite when its computation is
is_composite(table, h) ==
    /\ table.dependencies[h] # NoDep
    /\ table.computations[table.dependencies[h]].kind = "Composite"

\* what the closure of padding_value_for lets eval read of column h: 255
\* on every row of binary/NOT, the padding value pv at row 0, and the
\* column as it stands at the other rows
padding_view(col, pv, isnot) ==
    IF isnot THEN Value(<<Fr255, Fr255>>)
    ELSE Value([k \in 1..Max({1, len(col)}) |-> IF k = 1 THEN pv ELSE col.v[k]])

\* ConstraintSet::padding_value_for; NoFr when an unwrap panics
RECURSIVE padding_value_for(_, _, _, _, _)
padding_value_for(cols, table, nots, h, fuel) ==
    IF fuel = 0 THEN NoFr
    ELSE IF ~is_composite(table, h) THEN (IF h \in nots THEN Fr255 ELSE 0)
    ELSE LET exp == table.computations[table.dependencies[h]].exp
             view == [d \in ColNames |->
                         IF d \in dependencies(exp)
                         THEN padding_view(cols[d],
                                  IF d \in nots THEN Fr255
                                  ELSE padding_value_for(cols, table, nots, d, fuel - 1),
                                  d \in nots)
                         ELSE NoValue]
         IN  IF \E d \in dependencies(exp) \ nots :
                    padding_value_for(cols, table, nots, d, fuel - 1) = NoFr
             THEN NoFr
             ELSE eval(exp, 0, view)

\* pad(Full)
pad_full(cols, nots) ==
    LET pad_to == next_power_of_two(max_len(cols) + 1)
        zeroed == [c \in ColNames |-> zero_padded(cols[c], pad_to)]
    IN  [c \in ColNames |->
            IF c \in nots THEN not_padded(zeroed[c], pad_to - len(cols[c]))
            ELSE zeroed[c]]

\* pad(OneLine): the loop over the handles, in the order hs
RECURSIVE pad_each(_, _, _, _)
pad_each(cols, table, nots, hs) ==
    IF hs = <<>> THEN [cols |-> cols, ok |-> TRUE]
    ELSE LET h == Head(hs)
             padding_value == padding_value_for(cols, table, nots, h, MaxDepth)
             x == IF cols[h].set THEN Value(<<padding_value>> \o cols[h].v)
                  ELSE Value(<<0>>)
         IN  IF padding_value = NoFr THEN [cols |-> cols, ok |-> FALSE]
             ELSE pad_each([cols EXCEPT ![h] = x], table, nots, Tail(hs))

pad_one_line(cols, table, nots, hs) ==
    LET r == pad_each(cols, table, nots, hs)
    IN  [cols |-> [c \in ColNames |->
                      IF c \in nots THEN not_padded(r.cols[c], 1) ELSE r.cols[c]],
         ok |-> r.ok]

\* ConstraintSet::pad
pad(cols, table, nots, hs, s) ==
    CASE s = "Full" -> [cols |-> pad_full(cols, nots), ok |-> TRUE]
      [] s = "OneLine" -> pad_one_line(cols, table, nots, hs)
      [] OTHER -> [cols |-> cols, ok |-> TRUE]

\* the columns are padded once compute_all is over; rev is the order in
\* which handles() lists the columns
Pad(s, rev) ==
    /\ pass = "done"
    /\ Len(pads) < MaxPads
    /\ LET r == pad(modules, ct, binary_not, IterOrder(handles, rev), s) IN
        /\ modules' = IF r.ok THEN r.cols ELSE modules
        /\ pass' = IF r.ok THEN pass ELSE "crashed"
    /\ pads' = Append(pads, s)
    /\ UNCHANGED <<scopes, cur, counter, last, ct, nexti, wlog, elog,
                 targs, reduced, auxvars>>

\* the source of a padding run: a module, binary or not, with the columns A
\* and NOT from the trace, X sorted from A, and K composite in one of
\* three ways
PadModNames == {BINARY}
PadColumnDecls == {<<"A", "NOT", "K">>}
PadPermDecls == {[tos |-> <<"X">>, froms |-> <<"A">>]}
KShift == Funcall("Shift", <<EColumn("X"), EConst(1)>>)
KNot == Funcall("Sub", <<EColumn("NOT"), EColumn("A")>>)
PadComputations == {Composite("K", KExp), Composite("K", KShift), Composite("K", KNot)}
PadTraces == {NoValue, Value(<<1, 0>>), Value(<<2>>)}

\* the composite columns of a source whose expressions mention composite
\* columns: K = A + 1 and Y = K + 1, K = (shift K 1), K = Y + 1 and
\* Y = K + B
SchedColumnDecls == {<<"A", "B", "K">>, <<"A", "B", "K", "Y">>}
KOfA == Funcall("Add", <<EColumn("A"), EConst(1)>>)
KOfK == Funcall("Shift", <<EColumn("K"), EConst(1)>>)
KOfY == Funcall("Add", <<EColumn("Y"), EConst(1)>>)
YOfK == Funcall("Add", <<EColumn("K"), EConst(1)>>)
YOfKB == Funcall("Add", <<EColumn("K"), EColumn("B")>>)
SchedComputations ==
    {Composite("K", KOfA), Composite("K", KOfK), Composite("K", KOfY),
     Composite("Y", YOfK), Composite("Y", YOfKB)}


----------------------------------------------------------------------------
(* The reducer on nth: an array column and a constant index *)

\* the modules, the index sets and the types of the arrays a source declares,
\* and the indices its nth calls give
NthModNames == {"m", "n"}
ArrayRanges == {1..3, 1..7}
ArrayTypes == {"Column(Integer)", "Column(Boolean)"}
NthIndices == {2, 5, -1}
NthQueries == {<<"a">>, <<"b">>, <<"m", "a">>}

\* reduce of Token::DefArrayColumn
DefArrayColumn(col, range, ty) ==
    /\ CanInsert
    /\ Inserted("insert_symbol", col,
                insert_symbol(scopes, cur, col,
                              ArrayNode(scopes[cur].name.s, col, range, ty)))

\* Handle::new(&handle.module, format!("{}_{}", handle.name, i)), as a
\* Column of type ty
IthColumn(array, i, ty) ==
    [ColumnNode(array.module, array.name \o "_" \o ToString(i)) EXCEPT !.t = ty]

\* Builtin::validate_types for Nth: an ArrayColumn and a Const that is not
\* negative
validate_nth(array, i) == array.e = "ArrayColumn" /\ i >= 0

\* the Nth arm of apply in the scope s, on the array its first argument was
\* reduced to and the index i: the array is looked up again, by the name in
\* its handle, from s
apply_nth(tab, s, array, i) ==
    IF ~validate_nth(array, i) THEN Err("validating arguments")
    ELSE LET r == resolve_symbol(tab, s, <<array.name>>) IN
         IF ~r.ok THEN r
         ELSE IF r.node.e # "ArrayColumn" THEN Err("not implemented")
         ELSE IF i \in r.node.range
              THEN Ok(IthColumn(r.node, i, r.node.t), r.at, r.sym)
              ELSE Err("tried to access")

\* what leaves the pass: an Err through `?`, unimplemented!() as a panic
NthOutcome(res) ==
    IF res.ok THEN pass
    ELSE IF res.err \in {"not implemented", "stack overflow"} THEN "crashed"
    ELSE "aborted"

\* reduce of (nth q i): the arguments are reduced, then applied
ApplyNth(q, i) ==
    /\ pass = "generator"
    /\ LET a == resolve_symbol(scopes, cur, q)
           r == IF a.ok THEN apply_nth(scopes, cur, a.node, i) ELSE a
           again == IF a.ok /\ validate_nth(a.node, i)
                    THEN resolve_symbol(scopes, cur, <<a.node.name>>)
                    ELSE a
       IN
        /\ scopes' = MarkVisited(MarkVisited(scopes, a), again)
        /\ targs' = IF a.ok THEN <<a.node, ConstNode(i)>> ELSE <<>>
        /\ last' = Call("nth", cur, q, Len(scopes), r)
        /\ pass' = NthOutcome(r)
    /\ UNCHANGED <<cur, counter, modules, ct, nexti, wlog, elog, pads, reduced, auxvars>>


----------------------------------------------------------------------------
(* Handles, their ids and their mangled names *)

\* the strings of a handle are the sequences of their characters
NonAscii == {"U+00E9"}
is_ascii(c) == c \notin NonAscii

\* Option<usize>
NoId == [some |-> FALSE, v |-> 0]
SomeId(i) == [some |-> TRUE, v |-> i]

\* Handle::new
new(module, name) == [module |-> module, name |-> name, id |-> NoId]

\* Handle::set_id
set_id(h, i) == [h EXCEPT !.id = SomeId(i)]

\* PartialEq for Handle, and the same with the derived comparison of every
\* field
eq_derived(h1, h2) == h1 = h2
eq(h1, h2) == (h1.module = h2.module) /\ (h1.name = h2.name)

\* Hash for Handle: what the hasher is fed, the module and then the name
hash(h) == <<h.module, h.name>>

\* str::replace of the character c
RECURSIVE replace(_, _, _)
replace(s, c, to) ==
    IF s = <<>> THEN <<>>
    ELSE (IF Head(s) = c THEN to ELSE <<Head(s)>>) \o replace(Tail(s), c, to)

\* str::replace of the characters that are not ASCII
RECURSIVE replace_non_ascii(_, _)
replace_non_ascii(s, to) ==
    IF s = <<>> THEN <<>>
    ELSE (IF is_ascii(Head(s)) THEN <<Head(s)>> ELSE to)
         \o replace_non_ascii(Tail(s), to)

\* Handle::purify
purify(s) ==
    LET r1 == replace(s, "(", <<"_">>)
        r2 == replace(r1, ")", <<"_">>)
        r3 == replace(r2, "{", <<"_">>)
        r4 == replace(r3, "}", <<"_">>)
        r5 == replace(r4, "[", <<"_">>)
        r6 == replace(r5, "]", <<"_">>)
        r7 == replace(r6, "<", <<>>)
        r8 == replace(r7, ">", <<>>)
        r9 == replace(r8, ":", <<"_">>)
        r10 == replace(r9, "%", <<"_">>)
        r11 == replace(r10, ".", <<"_">>)
        r12 == replace(r11, "-", <<"s", "u", "b">>)
        r13 == replace(r12, "*", <<"m", "u", "l">>)
        r14 == replace(r13, "+", <<"a", "d", "d">>)
        r15 == replace(r14, "/", <<"d", "i", "v">>)
    IN  replace_non_ascii(r15, <<"_">>)

MODULE_SEPARATOR == <<"_", "_">>

\* Handle::mangle
mangle(h) ==
    purify(h.module) \o (IF h.module = <<>> THEN <<>> ELSE MODULE_SEPARATOR)
        \o purify(h.name)

\* the columns of the set, in the order of their ids
IdColumns ==
    <<new(<<"m">>, <<"_", "a">>), new(<<"m", "_">>, <<"a">>),
      new(<<"m">>, <<"a", "-">>), new(<<"m">>, <<"a", "s", "u", "b">>)>>
IdHandles == {IdColumns[k] : k \in 1..Len(IdColumns)}

\* ColumnSet::id_of: the dense id of the column a handle names
id_of(cols, h) == (CHOOSE k \in 1..Len(cols) : eq(cols[k], h)) - 1

\* enum Constraint
Vanishes(expr) ==
    [c |-> "Vanishes", xs |-> <<expr>>, ys |-> <<>>, hs1 |-> <<>>, hs2 |-> <<>>]
Plookup(xs, ys) ==
    [c |-> "Plookup", xs |-> xs, ys |-> ys, hs1 |-> <<>>, hs2 |-> <<>>]
Permutation(hs1, hs2) ==
    [c |-> "Permutation", xs |-> <<>>, ys |-> <<>>, hs1 |-> hs1, hs2 |-> hs2]
InRange(expr) ==
    [c |-> "InRange", xs |-> <<expr>>, ys |-> <<>>, hs1 |-> <<>>, hs2 |-> <<>>]

\* Expression::add_id_to_handles, with |h| h.set_id(cols.id_of(h)) as set_id
RECURSIVE add_id_to_handles(_, _)
add_id_to_handles(exp, cols) ==
    IF exp.e = "Column" THEN [exp EXCEPT !.h = set_id(@, id_of(cols, @))]
    ELSE IF exp.e \in {"Const", "ArrayColumn", "Void"} THEN exp
    ELSE [exp EXCEPT !.args =
             [k \in 1..Len(exp.args) |-> add_id_to_handles(exp.args[k], cols)]]

set_ids(hs, cols) == [k \in 1..Len(hs) |-> set_id(hs[k], id_of(cols, hs[k]))]
add_ids(xs, cols) == [k \in 1..Len(xs) |-> add_id_to_handles(xs[k], cols)]

\* Constraint::add_id_to_handles
constraint_add_id_to_handles(x, cols) ==
    IF x.c = "Vanishes" THEN [x EXCEPT !.xs = add_ids(@, cols)]
    ELSE IF x.c = "Plookup"
    THEN [x EXCEPT !.xs = add_ids(@, cols), !.ys = add_ids(@, cols)]
    ELSE IF x.c = "Permutation"
    THEN [x EXCEPT !.hs1 = set_ids(@, cols), !.hs2 = set_ids(@, cols)]
    ELSE x

\* Computation::add_id_to_handles: the target, the expression, the froms
\* and the tos
computation_add_id_to_handles(x, cols) ==
    [x EXCEPT !.target = IF x.kind = "Sorted" THEN @
                         ELSE set_id(@, id_of(cols, @)),
              !.exp = add_id_to_handles(@, cols),
              !.froms = set_ids(@, cols),
              !.tos = set_ids(@, cols)]

\* ConstraintSet::update_ids, over ComputationTable::update_ids
update_ids(cs, cols) ==
    [cs EXCEPT
        !.constraints =
            [k \in 1..Len(@) |-> constraint_add_id_to_handles(@[k], cols)],
        !.computations =
            [k \in 1..Len(@) |-> computation_add_id_to_handles(@[k], cols)]]

\* expressions and computations whose columns are handles, with their ids
NoHandle == new(<<>>, <<>>)
HConst == [e |-> "Const", h |-> NoHandle, args |-> <<>>]
HColumn(h) == [e |-> "Column", h |-> h, args |-> <<>>]
HList(xs) == [e |-> "List", h |-> NoHandle, args |-> xs]
HFuncall(func, args) == [e |-> func, h |-> NoHandle, args |-> args]
HComposite(target, exp) ==
    [kind |-> "Composite", target |-> target, exp |-> exp, froms |-> <<>>,
     tos |-> <<>>]
HInterleaved(target, froms) ==
    [kind |-> "Interleaved", target |-> target, exp |-> HConst, froms |-> froms,
     tos |-> <<>>]
HSorted(froms, tos) ==
    [kind |-> "Sorted", target |-> NoHandle, exp |-> HConst, froms |-> froms,
     tos |-> tos]

\* the constraints and the computations the generator pass hands over
MaxCons == 2
IdColumn(k) == HColumn(IdColumns[k])
ConstraintChoices ==
    {Vanishes(IdColumn(k)) : k \in 1..Len(IdColumns)}
    \cup {Vanishes(HFuncall("Sub", <<IdColumn(1), IdColumn(2)>>)),
          Vanishes(HList(<<IdColumn(3), HConst>>))}
    \cup {Plookup(<<IdColumn(1)>>, <<IdColumn(2)>>),
          Plookup(<<IdColumn(3)>>, <<IdColumn(4)>>)}
    \cup {Permutation(<<IdColumns[1]>>, <<IdColumns[3]>>),
          Permutation(<<IdColumns[2], IdColumns[4]>>,
                      <<IdColumns[1], IdColumns[3]>>)}
    \cup {InRange(IdColumn(k)) : k \in 1..Len(IdColumns)}
ComputationChoices ==
    {HComposite(IdColumns[4], HFuncall("Add", <<IdColumn(1), HConst>>)),
     HInterleaved(IdColumns[3], <<IdColumns[1], IdColumns[2]>>),
     HSorted(<<IdColumns[1]>>, <<IdColumns[2]>>)}

NoConstraintSet == [constraints |-> <<>>, computations |-> <<>>, built |-> FALSE]

\* a constraint the generator pass produces
PushConstraint(x) ==
    /\ ~cset.built
    /\ Len(cset.constraints) < MaxCons
    /\ cset' = [cset EXCEPT !.constraints = Append(@, x)]
    /\ UNCHANGED <<symvars, modules, ct, nexti, wlog, elog, pads, targs,
                   reduced, trace, hexed>>

\* a computation the definitions pass registers
PushComputation(x) ==
    /\ ~cset.built
    /\ Len(cset.computations) < MaxCons
    /\ cset' = [cset EXCEPT !.computations = Append(@, x)]
    /\ UNCHANGED <<symvars, modules, ct, nexti, wlog, elog, pads, targs,
                   reduced, trace, hexed>>

\* ConstraintSet::new
NewConstraintSet ==
    /\ ~cset.built
    /\ cset' = [update_ids(cset, IdColumns) EXCEPT !.built = TRUE]
    /\ UNCHANGED <<symvars, modules, ct, nexti, wlog, elog, pads, targs,
                   reduced, trace, hexed>>

\* the handles embedded in an expression, in a constraint, in a computation
RECURSIVE handles_of(_)
handles_of(exp) ==
    IF exp.e = "Column" THEN {exp.h}
    ELSE UNION {handles_of(exp.args[k]) : k \in 1..Len(exp.args)}

Elems(s) == {s[k] : k \in 1..Len(s)}

constraint_handles(x) ==
    (UNION {handles_of(e) : e \in Elems(x.xs) \cup Elems(x.ys)})
        \cup Elems(x.hs1) \cup Elems(x.hs2)

computation_handles(x) ==
    (IF x.kind = "Sorted" THEN {} ELSE {x.target})
        \cup handles_of(x.exp) \cup Elems(x.froms) \cup Elems(x.tos)

EmbeddedHandles ==
    (UNION {constraint_handles(x) : x \in Elems(cset.constraints)})
        \cup (UNION {computation_handles(x) : x \in Elems(cset.computations)})


----------------------------------------------------------------------------
(* fill_traces: the columns of a trace file are stored in the column set *)

\* a column name and a key of the trace are the sequences of their
\* '_'-separated components, so <<"a", "b", "2">> is "a_b_2"; a module is
\* the sequence of its one component
Numeral == ("2" :> 2) @@ ("5" :> 5)

\* str::parse::<usize>().ok()
parse_usize(c) == IF c \in DOMAIN Numeral THEN SomeId(Numeral[c]) ELSE NoId

\* the leaves a trace file may hold
MaxLeaves == 2

\* compute.rs validate and parse_column: a Boolean column takes 0 and 1
parse_column(xs, ty) ==
    IF ty = "Boolean" /\ \E k \in 1..Len(xs) : xs[k] \notin {0, 1}
    THEN [ok |-> FALSE, v |-> <<>>]
    ELSE [ok |-> TRUE, v |-> xs]

\* enum Column of the column set a trace is read into
AtomicColumn(ty) ==
    [kind |-> "Atomic", t |-> ty, range |-> {}, value |-> NoValue,
     values |-> <<>>]
ArrayColumn(range, ty) ==
    [kind |-> "Array", t |-> ty, range |-> range, value |-> NoValue,
     values |-> [i \in range |-> NoValue]]
CompositeColumn ==
    [kind |-> "Composite", t |-> "Numeric", range |-> {}, value |-> NoValue,
     values |-> <<>>]

\* ColumnSet::cols of the constraints: the arrays a and a_b, the atomic
\* column c and the composite column k of the module m
TraceColumns ==
    [m \in {<<"m">>} |->
        (<<"a">> :> ArrayColumn(1..3, "Numeric"))
        @@ (<<"a", "b">> :> ArrayColumn(1..3, "Boolean"))
        @@ (<<"c">> :> AtomicColumn("Numeric"))
        @@ (<<"k">> :> CompositeColumn)]

\* the paths of the leaf arrays of a trace file, in the order the file is
\* walked, and the arrays found there
TracePaths ==
    << <<<<"c">>>>,
       <<<<"m">>, <<"a">>>>,
       <<<<"m">>, <<"a", "2">>>>,
       <<<<"m">>, <<"a", "b", "2">>>>,
       <<<<"m">>, <<"a", "b", "5">>>>,
       <<<<"m">>, <<"c">>>>,
       <<<<"m">>, <<"k">>>>,
       <<<<"m">>, <<"x", "y", "2">>>>,
       <<<<"n">>, <<"a", "b", "2">>>> >>
TraceArrays == {<<1, 0>>, <<2>>}
NotThere == <<>>

\* a trace file: for each path the array found there, if any
TraceFiles ==
    {f \in [1..Len(TracePaths) -> TraceArrays \cup {NotThere}] :
        Cardinality({k \in 1..Len(TracePaths) : f[k] # NotThere}) <= MaxLeaves}

\* the Value::Array arm of fill_traces on the columns cols: what is stored,
\* what is warned about, and whether the thread panicked
fill_leaf(cols, path, xs) ==
    LET module == path[Len(path) - 1]
        colname == path[Len(path)]
        col_components == colname
        idx == IF Len(col_components) > 2
               THEN parse_usize(col_components[Len(col_components)])
               ELSE NoId
        radix == IF idx.some
                 THEN SubSeq(col_components, 1, Len(col_components) - 1)
                 ELSE colname
        column == cols[module][radix]
        parsed == parse_column(xs, column.t)
        stored(c) == [cols EXCEPT ![module][radix] = c]
        Warned(w) == [cols |-> cols, warn |-> <<w>>, panic |-> FALSE]
    IN  IF Len(path) < 2 THEN Warned("path too short")
        ELSE IF module \notin DOMAIN cols THEN Warned("module does not exist")
        ELSE IF radix \notin DOMAIN cols[module]
        THEN Warned("column does not exist")
        ELSE IF column.kind = "Atomic"
        THEN IF parsed.ok
             THEN [cols |-> stored([column EXCEPT !.value = Value(parsed.v)]),
                   warn |-> <<>>, panic |-> FALSE]
             ELSE Warned("expected bool")
        ELSE IF column.kind = "Composite"
        THEN [cols |-> stored([column EXCEPT !.value = Value(xs)]),
              warn |-> <<"composite column filled from trace">>,
              panic |-> FALSE]
        ELSE IF ~idx.some
        THEN [cols |-> cols, warn |-> <<>>, panic |-> TRUE]
        ELSE IF idx.v \notin column.range THEN Warned("index out of range")
        ELSE IF parsed.ok
        THEN [cols |-> stored([column EXCEPT !.values[idx.v] = Value(parsed.v)]),
              warn |-> <<>>, panic |-> FALSE]
        ELSE Warned("expected bool")

\* fill_traces on the object of a trace file, from its k-th path on
RECURSIVE fill_traces(_, _, _, _)
fill_traces(file, k, cols, warns) ==
    IF k > Len(TracePaths)
    THEN [cols |-> cols, warns |-> warns, result |-> "Ok"]
    ELSE IF file[k] = NotThere THEN fill_traces(file, k + 1, cols, warns)
    ELSE LET r == fill_leaf(cols, TracePaths[k], file[k]) IN
         IF r.panic THEN [cols |-> cols, warns |-> warns, result |-> "panic"]
         ELSE fill_traces(file, k + 1, r.cols, warns \o r.warn)

NoFile == [k \in 1..Len(TracePaths) |-> NotThere]
NoTrace ==
    [phase |-> "start", file |-> NoFile, cols |-> TraceColumns, warns |-> <<>>,
     result |-> ""]

\* compute.rs compute: the trace file is read and parsed
ReadTrace(file) ==
    /\ trace.phase = "start"
    /\ trace' = [trace EXCEPT !.phase = "read", !.file = file]
    /\ UNCHANGED <<symvars, modules, ct, nexti, wlog, elog, pads, targs,
                   reduced, cset, hexed>>

\* compute.rs compute: fill_traces(&v, vec![], &mut cs.columns)
FillTraces ==
    /\ trace.phase = "read"
    /\ LET r == fill_traces(trace.file, 1, trace.cols, <<>>) IN
           trace' = [trace EXCEPT !.phase = "filled", !.cols = r.cols,
                                  !.warns = r.warns, !.result = r.result]
    /\ UNCHANGED <<symvars, modules, ct, nexti, wlog, elog, pads, targs,
                   reduced, cset, hexed>>


----------------------------------------------------------------------------
(* ConstraintSet::write: the values of a column rendered in hexadecimal *)

\* the hexadecimal digits the representation of a field element has (64 in
\* the field of the code), and the elements that fit in them
HexWidth == 2
HexDigits ==
    <<"0", "1", "2", "3", "4", "5", "6", "7", "8", "9", "a", "b", "c", "d",
      "e", "f">>
Pow16(n) == 16 ^ n
ReprValues == 0..(Pow16(HexWidth) - 1)

\* x.into_repr().to_string(): 0x and every digit of the representation
into_repr_to_string(x) ==
    <<"0", "x">> \o [k \in 1..HexWidth |->
                        HexDigits[((x \div Pow16(HexWidth - k)) % 16) + 1]]

\* str::trim_matches and str::trim_start_matches of the character c
RECURSIVE trim_end_matches(_, _)
trim_end_matches(s, c) ==
    IF s # <<>> /\ s[Len(s)] = c
    THEN trim_end_matches(SubSeq(s, 1, Len(s) - 1), c)
    ELSE s

RECURSIVE trim_start(_, _)
trim_start(s, c) ==
    IF s # <<>> /\ Head(s) = c THEN trim_start(Tail(s), c) ELSE s

trim_matches(s, c) == trim_end_matches(trim_start(s, c), c)
trim_start_matches(s, c) == trim_start(s, c)

\* format!("0x0{}", x.into_repr().to_string()[2..].trim_start_matches('0'))
render(x) ==
    LET repr == into_repr_to_string(x)
    IN  <<"0", "x", "0">> \o trim_start_matches(SubSeq(repr, 3, Len(repr)), "0")

\* the number a string of 0x and hexadecimal digits denotes
digit_value(c) == (CHOOSE k \in 1..Len(HexDigits) : HexDigits[k] = c) - 1
from_hex(s) ==
    LET digits == SubSeq(s, 3, Len(s))
        V[k \in 0..Len(digits)] ==
            IF k = 0 THEN 0 ELSE 16 * V[k - 1] + digit_value(digits[k])
    IN  V[Len(digits)]

NoHex == [written |-> FALSE, x |-> 0, s |-> <<>>]

\* ConstraintSet::write on one value of a column
WriteValue(x) ==
    /\ ~hexed.written
    /\ hexed' = [written |-> TRUE, x |-> x, s |-> render(x)]
    /\ UNCHANGED <<symvars, modules, ct, nexti, wlog, elog, pads, targs,
                   reduced, cset, trace>>


----------------------------------------------------------------------------
(* The specifications *)

InitAux ==
    /\ cset = NoConstraintSet
    /\ trace = NoTrace
    /\ hexed = NoHex

Init == InitSym /\ InitEval /\ InitAux

Next ==
    \/ \E m \in ModNames : DefModule(m)
    \/ \E n \in Names : DefColumn(n)
    \/ \E n \in Names, to \in Names : DefAlias(n, to)
    \/ \E n \in Names, v \in ConstValues : DefConst(n, v)
    \/ StartGenerator
    \/ \E q \in QueryNames : ReduceSymbol(q)
    \/ \E p \in BOOLEAN, n \in FormalNames, a \in ArgNodes : ApplyFn(p, n, a)
    \/ \E n \in FormalNames, i \in ForValues : ApplyFor(n, i)

Spec == Init /\ [][Next]_vars

\* the definitions pass alone
NextIns ==
    \/ \E m \in ModNames : DefModule(m)
    \/ \E n \in Names : DefColumn(n)
    \/ \E n \in Names, to \in Names : DefAlias(n, to)
    \/ \E n \in Names, v \in ConstValues : DefConst(n, v)
    \/ \E n \in FunNames, p \in BOOLEAN : Defun(n, p)
    \/ \E n \in FunNames, to \in FunKeys : DefunAlias(n, to)

SpecIns == Init /\ [][NextIns]_vars

\* the function definitions and the verbs the generator pass resolves
NextFun ==
    \/ \E m \in ModNames : DefModule(m)
    \/ \E n \in FunNames, p \in BOOLEAN : Defun(n, p)
    \/ \E n \in FunNames, to \in FunKeys : DefunAlias(n, to)
    \/ StartGenerator
    \/ \E f \in FunKeys : ReduceVerb(f)

SpecFun == Init /\ [][NextFun]_vars

\* the integer literals of a source: the field and MaxLit values on each side
LitValues == (0 - MaxLit)..(FrModulus + MaxLit - 1)

\* the constants a source defines and the literals and symbols it reduces
NextLit ==
    \/ \E m \in ModNames : DefModule(m)
    \/ \E n \in Names, v \in LitValues : DefConst(n, v)
    \/ StartGenerator
    \/ \E x \in LitValues : ReduceValue(x)
    \/ \E q \in QueryNames : ReduceSymbol(q)

SpecLit == Init /\ [][NextLit]_vars

\* the columns and permutations a source declares, the computations of its
\* columns, a trace, and the evaluator run over them
NextEval ==
    \/ \E cols \in ColumnDecls : DefColumns(cols)
    \/ \E p \in PermDecls : DefPermutation(p.tos, p.froms)
    \/ StartGenerator
    \/ \E comp \in ColumnComputations : InsertComputation(comp)
    \/ \E a, b \in TraceChoices : FillTrace(a, b)
    \/ \E sched \in Scheds, rev \in BOOLEAN : ComputeAll(sched, rev)

SpecEval == Init /\ [][NextEval]_vars

\* a source with a composite column, a trace, the evaluator run and the
\* padding of the columns
NextPad ==
    \/ \E m \in PadModNames : DefModule(m)
    \/ \E cols \in PadColumnDecls : DefColumns(cols)
    \/ \E p \in PadPermDecls : DefPermutation(p.tos, p.froms)
    \/ StartGenerator
    \/ \E comp \in PadComputations : InsertComputation(comp)
    \/ \E a, b \in PadTraces : FillTrace(a, b)
    \/ \E sched \in Scheds, rev \in BOOLEAN : ComputeAll(sched, rev)
    \/ \E s \in PaddingStrategy, rev \in BOOLEAN : Pad(s, rev)

SpecPad == Init /\ [][NextPad]_vars

\* the reduction of a call of a builtin, its arguments first
NextType ==
    \/ \E a \in Atoms : Traverse(a)
    \/ TraverseCall
    \/ \E b \in Builtin : Apply(b)

SpecType == Init /\ [][NextType]_vars

\* a source that declares arrays in its modules, and the calls of nth the
\* generator pass reduces
NextNth ==
    \/ \E m \in NthModNames : DefModule(m)
    \/ \E r \in ArrayRanges, ty \in ArrayTypes : DefArrayColumn("a", r, ty)
    \/ DefColumn("a")
    \/ DefAlias("b", "a")
    \/ StartGenerator
    \/ \E q \in NthQueries, i \in NthIndices : ApplyNth(q, i)

SpecNth == Init /\ [][NextNth]_vars

\* the constraints and computations of a source, and the set made of them
NextIds ==
    \/ \E x \in ConstraintChoices : PushConstraint(x)
    \/ \E x \in ComputationChoices : PushComputation(x)
    \/ NewConstraintSet

\* a source whose composite columns mention each other, a trace and the
\* evaluator run
NextSched ==
    \/ \E cols \in SchedColumnDecls : DefColumns(cols)
    \/ StartGenerator
    \/ \E comp \in SchedComputations : InsertComputation(comp)
    \/ \E a, b \in PadTraces : FillTrace(a, b)
    \/ \E sched \in Scheds, rev \in BOOLEAN : ComputeAll(sched, rev)

SpecSched == Init /\ [][NextSched]_vars

SpecIds == Init /\ [][NextIds]_vars

\* a trace file read into the columns of the constraints
NextTrace ==
    \/ \E file \in TraceFiles : ReadTrace(file)
    \/ FillTraces

SpecTrace == Init /\ [][NextTrace]_vars

\* the values of the columns written out
NextWrite == \E x \in ReprValues : WriteValue(x)

SpecWrite == Init /\ [][NextWrite]_vars

(***************************************************************************)
(* Lexical lookup, stated independently of the resolver's visited sets.    *)
(***************************************************************************)

\* the links of scope d followed from name n for at most k alias steps:
\* the Final reached, the unbound name reached, or (after k steps) a cycle
RECURSIVE AliasWalk(_, _, _, _)
AliasWalk(tab, d, n, k) ==
    LET sym == GetSym(tab, d, n) IN
    CASE sym.k = "Final" -> [k |-> "Final", name |-> n]
      [] sym.k = "None" -> [k |-> "Unbound", name |-> n]
      [] OTHER -> IF k = 0
                  THEN [k |-> "Cycle", name |-> n]
                  ELSE AliasWalk(tab, d, sym.to, k - 1)

WalkIn(tab, d, n) == AliasWalk(tab, d, n, Cardinality(Names))

\* the scopes from s up to the root, nearest first
RECURSIVE Ancestors(_, _)
Ancestors(tab, s) ==
    IF s = 0 THEN <<>> ELSE <<s>> \o Ancestors(tab, tab[s].parent)

\* the nearest scope at or above s that binds n, 0 when there is none
BindingScope(tab, s, n) ==
    LET up == Ancestors(tab, s)
        hits == {i \in 1..Len(up) : GetSym(tab, up[i], n).k # "None"}
    IN  IF hits = {} THEN 0
        ELSE up[CHOOSE i \in hits : \A j \in hits : i <= j]

\* the scopes strictly below d on the way up from s
Below(tab, s, d) ==
    LET up == Ancestors(tab, s)
    IN  {up[i] : i \in {j \in 1..Len(up) : \A h \in 1..j : up[h] # d}}

\* a closed scope is left on the way up from s to d
CrossesClosed(tab, s, d) == \E c \in Below(tab, s, d) : tab[c].closed

\* for and fn scopes are the ones named after the COUNTER
IsNested(tab, s) == tab[s].name.n >= 0

\* the module (or root) scope enclosing s
EnclosingModule(tab, s) ==
    LET up == Ancestors(tab, s)
    IN  up[CHOOSE i \in 1..Len(up) :
                 /\ ~IsNested(tab, up[i])
                 /\ \A j \in 1..(i - 1) : IsNested(tab, up[j])]

IsResolve == last.op = "resolve_symbol"
IsPlain == IsResolve /\ Len(last.name) = 1
IsDotted == IsResolve /\ Len(last.name) = 2

\* the query just resolved starts, in the first scope that binds it, on a
\* cycle of aliases
OnSymbolCycle ==
    /\ IsPlain
    /\ BindingScope(scopes, last.scope, last.name[1]) # 0
    /\ WalkIn(scopes, BindingScope(scopes, last.scope, last.name[1]),
              last.name[1]).k = "Cycle"

\* C1: resolve_symbol on a name whose alias chain loops in the scope that
\* binds it fails with the circular-definition error, and no resolution of
\* a symbol ever runs out of stack.
C1_SymbolCycleDetected ==
    /\ OnSymbolCycle => last.res = Err("circular")
    /\ IsResolve => last.res # Overflow

C1_Witness == OnSymbolCycle /\ last.res = Err("circular")

FromModule ==
    resolve_symbol(scopes, EnclosingModule(scopes, last.scope), last.name)

\* no for or fn scope between the start and its module binds the name
NotShadowed ==
    \A c \in Below(scopes, last.scope, EnclosingModule(scopes, last.scope)) :
        GetSym(scopes, c, last.name[1]).k = "None"

FromNested == IsPlain /\ IsNested(scopes, last.scope)

InsideClosed ==
    /\ IsResolve
    /\ \E c \in Below(scopes, last.scope, Root) : scopes[c].closed

\* C4 as stated: a resolution started inside a closed scope only ever
\* returns constants.
C4_OnlyConstInsideClosed ==
    (InsideClosed /\ last.res.ok) => last.res.node.e = "Const"

\* the Final a plain lookup from s reaches when purity is left aside
ReachedScope == BindingScope(scopes, last.scope, last.name[1])
ReachedWalk == WalkIn(scopes, ReachedScope, last.name[1])

\* C4: a plain name that is found only after leaving a closed scope must be
\* a constant, otherwise the resolution fails as impure; a Final bound in
\* the closed scope itself, or below it, is returned whatever it is, and a
\* dotted name is resolved from the root without the purity check.
C4_ConstAcrossClosed ==
    /\ (IsPlain /\ last.res.ok /\ CrossesClosed(scopes, last.scope, last.res.at))
           => last.res.node.e = "Const"
    /\ (/\ IsPlain
        /\ ReachedScope # 0
        /\ ReachedWalk.k = "Final"
        /\ CrossesClosed(scopes, last.scope, ReachedScope)
        /\ GetSym(scopes, ReachedScope, ReachedWalk.name).node.e # "Const")
           => last.res = Err("impure")
    /\ last.res = Err("impure") => (IsPlain /\ InsideClosed)

\* a column of the module looked up from inside a pure function's scope
C4_Witness ==
    /\ IsPlain
    /\ ReachedScope # 0
    /\ ReachedWalk.k = "Final"
    /\ CrossesClosed(scopes, last.scope, ReachedScope)
    /\ GetSym(scopes, ReachedScope, ReachedWalk.name).node.e = "Column"
    /\ last.res = Err("impure")

\* the verb just resolved starts, in the first scope that binds it, on a
\* cycle of function aliases
RECURSIVE FunAliasWalk(_, _, _, _)
FunAliasWalk(tab, s, n, k) ==
    LET up == Ancestors(tab, s)
        hits == {i \in 1..Len(up) : GetFun(tab, up[i], n).class # "None"}
        d == up[CHOOSE i \in hits : \A j \in hits : i <= j]
    IN  IF hits = {} THEN "Unbound"
        ELSE IF GetFun(tab, d, n).class # "Alias" THEN "Function"
        ELSE IF k = 0 THEN "Cycle"
        ELSE FunAliasWalk(tab, d, GetFun(tab, d, n).to, k - 1)

OnFunctionCycle ==
    /\ last.op = "resolve_function"
    /\ FunAliasWalk(scopes, last.scope, last.name[1],
                    Cardinality(FunNames) * (Cardinality(ModNames) + 1)) = "Cycle"

\* C2: resolve_function on a verb whose function aliases loop fails with the
\* circular-definition error instead of recursing without end.
C2_FunctionCycleDetected ==
    OnFunctionCycle => last.res = ErrFun("circular")

\* the scope a call of derived selected
Selected == last.res.at

\* C6: an insertion whose name is already bound in the receiving scope fails
\* and leaves every scope as it was; one whose name is free there succeeds
\* (a constant only when its value is a field element) whatever the parent
\* or the children bind; no insertion replaces or removes a binding.
C6_LocalUniqueness ==
    [][ /\ \A i \in 1..Len(scopes) :
             /\ \A n \in SymNames : scopes[i].symbols[n].k # "None" =>
                    scopes'[i].symbols[n] = scopes[i].symbols[n]
             /\ \A n \in FunKeys : scopes[i].funcs[n].class # "None" =>
                    scopes'[i].funcs[n] = scopes[i].funcs[n]
        /\ last'.op \in {"insert_symbol", "insert_alias", "insert_constant"} =>
             IF scopes[cur].symbols[last'.name[1]].k # "None"
             THEN last'.res = Err("duplicate") /\ scopes' = scopes
             ELSE \/ /\ last'.res.ok
                     /\ scopes'[cur].symbols[last'.name[1]].k # "None"
                  \/ /\ last'.op = "insert_constant"
                     /\ last'.res = Err("not an Fr element")
                     /\ scopes' = scopes
        /\ last'.op \in {"insert_function", "insert_funalias"} =>
             IF scopes[cur].funcs[last'.name[1]].class # "None"
             THEN last'.res = Err("duplicate") /\ scopes' = scopes
             ELSE /\ last'.res.ok
                  /\ scopes'[cur].funcs[last'.name[1]].class # "None"
      ]_vars

\* a module rejected a second binding of a name, and accepted one the root
\* binds as well
C6_Witness ==
    /\ last.op \in {"insert_symbol", "insert_alias", "insert_constant"}
    /\ last.res = Err("duplicate")
    /\ cur # Root
    /\ scopes[Root].symbols[last.name[1]].k # "None"
    /\ scopes[cur].symbols[last.name[1]].k # "None"

\* C7: derived returns the child of that name when the parent has one and
\* changes nothing; otherwise it adds exactly one scope, whose parent is the
\* receiver and whose computation table is the receiver's; no scope ever
\* changes its name, parent, closedness or computation table.
C7_DerivedIdempotent ==
    [][ /\ Len(scopes') \in {Len(scopes), Len(scopes) + 1}
        /\ \A i \in 1..Len(scopes) :
             /\ scopes'[i].name = scopes[i].name
             /\ scopes'[i].parent = scopes[i].parent
             /\ scopes'[i].closed = scopes[i].closed
             /\ scopes'[i].ct = scopes[i].ct
        /\ last'.op = "derived" =>
             LET c == Child(scopes, Root, ModuleName(last'.name[1])) IN
             IF c # 0
             THEN scopes' = scopes /\ cur' = c
             ELSE /\ scopes' = Append(scopes, scopes'[Len(scopes) + 1])
                  /\ cur' = Len(scopes) + 1
                  /\ scopes'[cur'].parent = Root
                  /\ scopes'[cur'].name = ModuleName(last'.name[1])
                  /\ scopes'[cur'].ct = scopes[Root].ct
                  /\ \A n \in SymNames : scopes'[cur'].symbols[n] = NoSym
        /\ last'.op \in {"apply", "apply_form"} =>
             /\ Len(scopes') = Len(scopes) + 1
             /\ scopes'[cur'].parent = cur
             /\ scopes'[cur'].ct = scopes[cur].ct
      ]_vars

\* a second defmodule of the same name selected the scope the first one
\* made, with the symbols defined in between
C7_Witness ==
    /\ last.op = "derived"
    /\ last.n0 = Len(scopes)
    /\ Selected # Root
    /\ cur = Selected
    /\ \E n \in Names : scopes[Selected].symbols[n].k # "None"

\* the Const nodes bound in the symbol table
BoundConsts ==
    {scopes[i].symbols[n].node :
        <<i, n>> \in {<<j, k>> \in (1..Len(scopes)) \X SymNames :
                        /\ scopes[j].symbols[k].k = "Final"
                        /\ scopes[j].symbols[k].node.e = "Const"}}

\* C8: a Const node that a reduction returned or that insert_constant bound
\* carries its field value; reducing a literal outside the field fails.
C8_NoConstOutsideField ==
    /\ \A c \in BoundConsts : c.fr # NoFr
    /\ (last.op \in {"reduce", "resolve_symbol"} /\ last.res.ok
           /\ last.res.node.e = "Const") => last.res.node.fr # NoFr

\* C9: during an evaluator run a column that has a value is never written
\* again with a different value.
C9_ColumnImmutable ==
    \A k \in 1..Len(wlog) : wlog[k].old.set => wlog[k].new = wlog[k].old

\* the workers deliver in row order and the hash sets iterate in theirs
InOrder == [sched |-> [k \in 1..MaxRows |-> k], rev |-> FALSE]

\* ConstraintSet::compute_all run to its end on the set cs
RECURSIVE compute_all(_, _)
compute_all(cs, i) ==
    IF i > Len(cs.computations.computations) THEN cs
    ELSE compute_all(compute(cs, i, InOrder, MaxDepth).cs, i + 1)

\* the table the same insertions build when they are made in the order pi
RECURSIVE Reordered(_, _, _)
Reordered(comps, pi, k) ==
    IF k = 0 THEN NewTable
    ELSE LET c == comps[pi[k]]
             tb == Reordered(comps, pi, k - 1)
         IN  IF c.kind = "Sorted" THEN insert_many(tb, c.tos, c).ct
             ELSE insert(tb, c.target, c).ct

Orders(n) == {pi \in [1..n -> 1..n] : \A i, j \in 1..n : pi[i] = pi[j] => i = j}

\* the columns as the trace left them, before compute_all
AsFilled == [c \in ColNames |-> IF c \in TraceCols THEN modules[c] ELSE NoValue]

\* C10: for a fixed trace and fixed computations, the values compute_all
\* installs are the same in whatever order it meets the computations.
C10_OrderIndependent ==
    pass = "done" =>
        \A pi \in Orders(Len(ct.computations)) :
            compute_all(ConstraintSet(AsFilled,
                            Reordered(ct.computations, pi, Len(ct.computations))),
                        1).modules = modules

\* the columns a computation writes
Targets(comp) ==
    IF comp.kind = "Sorted" THEN {comp.tos[k] : k \in 1..Len(comp.tos)}
    ELSE {comp.target}

\* the turn of compute_all at nexti fails: compute(nexti) returns an Err
TurnFails ==
    /\ pass = "computing"
    /\ nexti <= Len(ct.computations)
    /\ compute(ConstraintSet(modules, ct), nexti, InOrder, MaxDepth).err
           \notin {"", "stack overflow"}

\* C11: when compute(i) fails, compute_all logs the error, the targets of
\* computation i are not written (a target without a value still has none),
\* the loop goes on with computation i + 1, and compute_all returns, with
\* Ok, only once it has been through the whole table.
C11_ErrorsNotFatal ==
    [][/\ TurnFails =>
            /\ Len(elog') = Len(elog) + 1
            /\ elog'[Len(elog')].i = nexti
            /\ \A h \in Targets(ct.computations[nexti]) : modules'[h] = modules[h]
            /\ nexti' = nexti + 1
            /\ pass' = "computing"
       /\ (pass = "computing" /\ pass' = "done") =>
            /\ nexti > Len(ct.computations)
            /\ modules' = modules]_vars

\* a computation failed and its target has no value, while a later
\* computation of the table has its target computed
C11_Witness ==
    /\ pass = "done"
    /\ \E k \in 1..Len(elog) : \E j \in 1..Len(ct.computations) :
           /\ elog[k].i < j
           /\ \A h \in Targets(ct.computations[elog[k].i]) : ~is_computed(modules[h])
           /\ \A h \in Targets(ct.computations[j]) : is_computed(modules[h])
           /\ \E w \in 1..Len(wlog) : wlog[w].col \in Targets(ct.computations[j])

\* a turn of compute_all that runs the Sorted computation at nexti to its end
SortedTurn ==
    /\ pass = "computing"
    /\ nexti <= Len(ct.computations)
    /\ ct.computations[nexti].kind = "Sorted"
    /\ nexti' = nexti + 1
    /\ elog' = elog

\* the column col read through the permutation pi of its rows
Permuted(col, pi) == Value([r \in 1..Len(pi) |-> col.v[pi[r]]])

\* C12: compute_sorted(froms, tos) applies one single permutation of the
\* row indices to every column: each tos[k] is froms[k], as compute_sorted
\* found it, read through that permutation, so that tos[k] has the multiset
\* of values of froms[k] and every output row is an input row.
C12_SortedPermutation ==
    [][SortedTurn =>
          LET froms == ct.computations[nexti].froms
              tos == ct.computations[nexti].tos
          IN  \E pi \in Orders(Len(modules[froms[1]].v)) :
                  \A k \in 1..Len(froms) :
                      modules'[tos[k]] = Permuted(modules[froms[k]], pi)]_vars

\* the tuple the columns froms hold at row i
Row(cols, froms, i) == [k \in 1..Len(froms) |-> cols[froms[k]].v[i]]

\* x comes strictly before y in the lexicographic order, left to right
LexLess(x, y) ==
    \E k \in 1..Len(x) : x[k] < y[k] /\ \A j \in 1..(k - 1) : x[j] = y[j]

\* pi puts the rows of froms in non-decreasing lexicographic order and keeps
\* rows with equal tuples in their original order
StableLex(cols, froms, pi) ==
    \A r, s \in 1..Len(pi) :
        r < s =>
            /\ ~LexLess(Row(cols, froms, pi[s]), Row(cols, froms, pi[r]))
            /\ Row(cols, froms, pi[r]) = Row(cols, froms, pi[s]) => pi[r] < pi[s]

\* C13: the rows compute_sorted writes are in the order of a stable
\* lexicographic sort of the froms tuples: sorted_is is a permutation pi that
\* sorts the tuples, left to right, and keeps equal tuples in their original
\* order, and every tos[k] is froms[k], as the loop reads it, through pi;
\* froms = [[3,1,2]] gives tos = [[1,2,3]].
C13_SortedOrder ==
    [][SortedTurn =>
          LET froms == ct.computations[nexti].froms
              tos == ct.computations[nexti].tos
              read(k) == IF \E j \in 1..(k - 1) : tos[j] = froms[k]
                         THEN modules'[froms[k]] ELSE modules[froms[k]]
              n == Len(modules[froms[1]].v)
              pi == [r \in 1..n |-> sorted_is(modules, froms, n)[r] + 1]
          IN  /\ pi \in Orders(n)
              /\ StableLex(modules, froms, pi)
              /\ \A k \in 1..Len(froms) : modules'[tos[k]] = Permuted(read(k), pi)
              /\ (Len(froms) = 1 /\ modules[froms[1]].v = <<3, 1, 2>>) =>
                     modules'[tos[1]].v = <<1, 2, 3>>]_vars

\* a sort of two columns whose rows tie on the first column has run and
\* broke the tie on the second
C13_Witness ==
    /\ nexti > 1
    /\ ct.computations[nexti - 1] = Sorted(<<"A", "B">>, <<"X", "Y">>)
    /\ modules["A"].v = <<1, 1>>
    /\ modules["B"].v = <<1, 0>>
    /\ modules["X"].v = <<1, 1>>
    /\ modules["Y"].v = <<0, 1>>

\* a turn of compute_all on the Interleaved computation at nexti, its target
\* without a value and its sources with one once the turn is over
InterleavedTurn ==
    /\ pass = "computing"
    /\ nexti <= Len(ct.computations)
    /\ ct.computations[nexti].kind = "Interleaved"
    /\ ~is_computed(modules[ct.computations[nexti].target])
    /\ nexti' = nexti + 1
    /\ \A k \in 1..Len(ct.computations[nexti].froms) :
           is_computed(modules'[ct.computations[nexti].froms[k]])

\* the columns of the example: interleave([1,2],[3,4])
S5Cols ==
    [c \in ColNames |-> IF c = "A" THEN Value(<<1, 2>>)
                        ELSE IF c = "B" THEN Value(<<3, 4>>) ELSE NoValue]

\* C14: when its n sources all have L rows, compute_interleaved gives n * L
\* rows and row i * n + j is row i of froms[j] (interleave([1,2],[3,4]) is
\* [1,3,2,4]); when the lengths differ it fails with incoherent lengths and
\* the target stays without a value.
C14_Interleave ==
    [][/\ InterleavedTurn =>
            LET froms == ct.computations[nexti].froms
                target == ct.computations[nexti].target
                n == Len(froms)
                L == Len(modules'[froms[1]].v)
            IN  IF \A k \in 1..n : Len(modules'[froms[k]].v) = L
                THEN /\ is_computed(modules'[target])
                     /\ Len(modules'[target].v) = n * L
                     /\ \A i \in 0..(L - 1), j \in 0..(n - 1) :
                            modules'[target].v[i * n + j + 1] =
                                modules'[froms[j + 1]].v[i + 1]
                     /\ elog' = elog
                ELSE /\ ~is_computed(modules'[target])
                     /\ Len(elog') = Len(elog) + 1
                     /\ elog'[Len(elog')].err =
                            "interleaving columns of incoherent lengths"
       /\ compute_interleaved(ConstraintSet(S5Cols, NewTable), <<"A", "B">>,
                              InOrder, MaxDepth).values = <<1, 3, 2, 4>>]_vars

\* an interleaved column was computed from two sources of two rows that are
\* not the same column
C14_Witness ==
    /\ is_computed(modules["I"])
    /\ Len(modules["I"].v) = 4
    /\ modules["K"].v # modules["B"].v
    /\ modules["K"].v[1] # modules["K"].v[2]

\* every column read as 0, and binary/NOT as 255, at whatever row
ReadAsZero ==
    [d \in ColNames |->
        IF d \in binary_not THEN Value(<<Fr255, Fr255>>) ELSE Value(<<0, 0>>)]

\* the padding value of column h: 0, 255 for binary/NOT, and for a
\* composite column the value of its expression on ReadAsZero
PaddingValue(h) ==
    IF is_composite(ct, h)
    THEN eval(ct.computations[ct.dependencies[h]].exp, 0, ReadAsZero)
    ELSE IF h \in binary_not THEN Fr255 ELSE 0

\* a step that applies the padding strategy s to the end
Padded(s) ==
    /\ pass = "done"
    /\ pass' = "done"
    /\ pads' = Append(pads, s)

\* C15: after pad(Full), with M the smallest power of two >= max_len + 1,
\* every column that had n rows has M rows, its last n rows are its former
\* rows in order, and its first M - n rows all hold its padding value.
C15_FullPadding ==
    [][Padded("Full") =>
          LET M == next_power_of_two(max_len(modules) + 1)
          IN  \A h \in handles :
                  is_computed(modules[h]) =>
                      LET n == Len(modules[h].v)
                      IN  /\ Len(modules'[h].v) = M
                          /\ SubSeq(modules'[h].v, M - n + 1, M) = modules[h].v
                          /\ \A k \in 1..(M - n) :
                                 modules'[h].v[k] = PaddingValue(h)]_vars

\* C16: a second pad(OneLine) right after a first prepends to every column
\* the value the first one prepended, and leaves the rows below as they were.
C16_OneLineIdempotent ==
    [][(Padded("OneLine") /\ pads # <<>> /\ pads[Len(pads)] = "OneLine") =>
          \A h \in handles :
              /\ modules'[h].v[1] = modules[h].v[1]
              /\ Tail(modules'[h].v) = modules[h].v]_vars

\* C17: padding_value_for a composite column is the value of its expression
\* when every column it depends on is read as 0 (255 for binary/NOT),
\* whatever the columns hold and whatever shifts the expression has.
C17_CompositePaddingValue ==
    pass = "done" =>
        \A h \in handles :
            is_composite(ct, h) =>
                padding_value_for(modules, ct, binary_not, h, MaxDepth)
                    = PaddingValue(h)

\* apply has validated the call of a builtin and its typing is a type with
\* a magma
Applied ==
    /\ reduced.op \in Builtin \ {"ByteDecomposition"}
    /\ reduced.ok

\* the types typing is given for the last call: those of its arguments
ArgTypes == [k \in 1..Len(reduced.args) |-> t(reduced.args[k].exp)]

\* the join of the magmas of the types xs
JoinOfMagmas(xs) ==
    IF \E k \in 1..Len(xs) : xs[k].magma = Integer THEN Integer ELSE Boolean

Arithmetic == {"Add", "Sub", "Neg", "Inv"}

\* C18: for every builtin op and argument types xs, if op is one of +, -,
\* neg, inv and every argument has magma Boolean then typing(op, xs) has
\* magma Integer; in every other case the magma of typing(op, xs) is the
\* join of the magmas of all the arguments.
C18_TypePromotion ==
    Applied =>
        LET xs == ArgTypes
            ty == typing(reduced.op, xs)
        IN  IF reduced.op \in Arithmetic /\ \A k \in 1..Len(xs) : xs[k].magma = Boolean
            THEN ty.magma = Integer
            ELSE ty.magma = JoinOfMagmas(xs)

\* C18, amended: on arguments that pass validation, +, -, neg and inv give
\* magma Integer when every argument is Boolean; they otherwise, and *, eq
\* and begin always, give the join of the magmas of all the arguments; not
\* gives Boolean; ^, shift and nth give the magma of their first argument,
\* and if-zero and if-not-zero the join of the magmas of their branches, the
\* condition left out.
C18_TypePromotionByOp ==
    Applied =>
        LET xs == ArgTypes
            ty == typing(reduced.op, xs)
        IN  CASE reduced.op \in Arithmetic ->
                    IF \A k \in 1..Len(xs) : xs[k].magma = Boolean
                    THEN ty.magma = Integer
                    ELSE ty.magma = JoinOfMagmas(xs)
              [] reduced.op = "Not" -> ty.magma = Boolean
              [] reduced.op \in {"Exp", "Shift", "Nth"} -> ty.magma = xs[1].magma
              [] reduced.op \in {"IfZero", "IfNotZero"} ->
                    ty.magma = JoinOfMagmas(Tail(xs))
              [] OTHER -> ty.magma = JoinOfMagmas(xs)

\* a sum or a difference of Boolean arguments, a column among them, was
\* typed
C18_Witness ==
    /\ Applied
    /\ reduced.op \in Arithmetic
    /\ \A k \in 1..Len(ArgTypes) : ArgTypes[k].magma = Boolean
    /\ \E k \in 1..Len(ArgTypes) : is_column(ArgTypes[k])

\* apply has lowered a call of eq
EqApplied == reduced.op = "Eq" /\ reduced.ok

\* C19: when both reduced arguments x and y of (eq x y) have a Boolean
\* type, the reducer returns Mul(Sub(x, y), Sub(x, y)) with a Boolean magma,
\* Column(Boolean) when an operand is a column; when one of them is not
\* Boolean it returns Sub(x, y).
C19_EqLowering ==
    EqApplied =>
        LET x == reduced.args[1].exp
            y == reduced.args[2].exp
            tx == reduced.args[1].t
            ty == reduced.args[2].t
        IN  IF is_bool(tx) /\ is_bool(ty)
            THEN /\ reduced.exp = Funcall("Mul", <<Funcall("Sub", <<x, y>>),
                                                   Funcall("Sub", <<x, y>>)>>)
                 /\ is_bool(reduced.t)
                 /\ (is_column(tx) \/ is_column(ty)) => reduced.t = Column(Boolean)
            ELSE reduced.exp = Funcall("Sub", <<x, y>>)

\* a trace in which the rows of X and Y are the four pairs of booleans
EqRows ==
    [c \in ColNames |->
        CASE c = "X" -> Value(<<0, 0, 1, 1>>)
          [] c = "Y" -> Value(<<0, 1, 0, 1>>)
          [] OTHER -> Value(<<2, 0, 1, 3>>)]

\* both arguments of the last call were reduced to a Boolean type
BothBoolean == is_bool(reduced.args[1].t) /\ is_bool(reduced.args[2].t)

\* C20: for every pair of values x, y in {0, 1} of two Boolean arguments,
\* the expression the reducer returns for (eq x y) and the evaluator's own
\* Funcall of Eq both evaluate to 0 when x = y and to 1 when x # y, and so
\* agree on all four rows.
C20_EqValue ==
    (EqApplied /\ BothBoolean) =>
        \A i \in 0..3 :
            LET ex == reduced.args[1].exp
                ey == reduced.args[2].exp
                x == eval(ex, i, EqRows)
                y == eval(ey, i, EqRows)
                lowered == eval(reduced.exp, i, EqRows)
                direct == eval(Funcall("Eq", <<ex, ey>>), i, EqRows)
                expected == IF x = y THEN 0 ELSE 1
            IN  (x \in {0, 1} /\ y \in {0, 1}) =>
                    /\ lowered = expected
                    /\ direct = expected
                    /\ lowered = direct

\* eq was lowered on the Boolean columns X and Y, whose rows differ
C20_Witness ==
    /\ EqApplied
    /\ reduced.args[1].exp = TColumn("X", Column(Boolean))
    /\ reduced.args[2].exp = TColumn("Y", Column(Boolean))
    /\ eval(reduced.exp, 0, EqRows) = 0
    /\ eval(reduced.exp, 2, EqRows) = 1

\* the expressions apply was given as the arguments of the last call
ArgExps == [k \in 1..Len(reduced.args) |-> reduced.args[k].exp]

\* apply has reduced a call of +, -, * or neg whose arguments are all known
\* at compile time
ConstantCall ==
    /\ reduced.ok
    /\ reduced.op \in {"Add", "Sub", "Mul", "Neg"}
    /\ \A k \in 1..Len(ArgExps) : pure_eval(ArgExps[k]).ok

\* C21: reducing an application of +, -, * or neg to constants yields a
\* Const holding the exact integer result, not a Funcall; (+ 1 0) reduces
\* to Const(1) typed Scalar(Integer), and (+ (* 1 0) 0) is typed Integer.
C21_ConstantFolding ==
    ConstantCall =>
        /\ reduced.exp.e = "Const"
        /\ reduced.exp.v = pure_eval(Funcall(reduced.op, ArgExps)).v
        /\ (reduced.op = "Add" /\ ArgExps = <<EConst(1), EConst(0)>>) =>
                reduced.exp = EConst(1) /\ reduced.t = Scalar(Integer)
        /\ (reduced.op = "Add" /\ Len(ArgExps) = 2 /\ ArgExps[2] = EConst(0)
                /\ pure_eval(ArgExps[1]).v = 0) =>
                reduced.t.magma = Integer

\* nth was applied to an array column and a constant that is not negative
NthApplied ==
    /\ last.op = "nth"
    /\ targs # <<>>
    /\ targs[1].e = "ArrayColumn"
    /\ targs[2].v >= 0

\* C22: for an array column arr and a constant k that is not negative,
\* (nth arr k) reduces to the Column of handle (arr.module, "{arr.name}_{k}")
\* and of the array's declared type when k is in the range of arr, and fails
\* with an index out of range error when it is not.
C22_NthLowering ==
    NthApplied =>
        LET arr == targs[1]
            k == targs[2].v
        IN  IF k \in arr.range
            THEN last.res.ok /\ last.res.node = IthColumn(arr, k, arr.t)
            ELSE ~last.res.ok /\ last.res.err = "tried to access"

\* C23: a defpermutation(tos, froms) that succeeds has |tos| = |froms| and
\* froms that all resolve; it leaves each to declared a Phantom column of
\* type Column(Integer) of the current module, and appends exactly one
\* Sorted{froms, tos} computation to which the table maps every to; one
\* that fails records no computation.
C23_DefPermutation ==
    [][\A p \in PermDecls :
          DefPermutation(p.tos, p.froms) =>
              IF last'.res.ok
              THEN /\ Len(p.tos) = Len(p.froms)
                   /\ \A k \in 1..Len(p.froms) :
                          resolve_symbol(scopes, cur, <<p.froms[k]>>).ok
                   /\ \A k \in 1..Len(p.tos) :
                          GetSym(scopes', cur, p.tos[k]).node
                              = PhantomNode(scopes[cur].name.s, p.tos[k])
                   /\ ct'.computations
                          = Append(ct.computations, Sorted(p.froms, p.tos))
                   /\ \A k \in 1..Len(p.tos) :
                          ct'.dependencies[p.tos[k]] = Len(ct'.computations)
              ELSE ct' = ct]_vars

(***************************************************************************)
(* The ids, the identity and the mangled names of handles.                 *)
(***************************************************************************)

\* C24: once the constraint set is made, every handle embedded in a
\* constraint or in a computation carries the id of the column it names
C24_IdsReachEveryHandle ==
    cset.built =>
        \A h \in EmbeddedHandles : h.id = SomeId(id_of(IdColumns, h))

\* C25: mangle is injective: two handles that differ in their module or in
\* their name have different mangled names
C25_MangleInjective ==
    \A h1, h2 \in EmbeddedHandles :
        <<h1.module, h1.name>> # <<h2.module, h2.name>> =>
            mangle(h1) # mangle(h2)

\* C26: two handles are equal exactly when their modules and their names
\* are, whatever their ids; set_id leaves every equality as it was; equal
\* handles hash alike
C26_HandleIdentity ==
    \A h1, h2 \in EmbeddedHandles :
        /\ eq(h1, h2) <=> (<<h1.module, h1.name>> = <<h2.module, h2.name>>)
        /\ \A i \in 0..(Len(IdColumns) - 1) :
               /\ eq(set_id(h1, i), h2) <=> eq(h1, h2)
               /\ eq(h2, set_id(h1, i)) <=> eq(h2, h1)
        /\ eq(h1, h2) => hash(h1) = hash(h2)

\* a set is made in which the same column is named by a handle with an id
\* and by a handle without
C26_Witness ==
    /\ cset.built
    /\ \E h1, h2 \in EmbeddedHandles :
           /\ <<h1.module, h1.name>> = <<h2.module, h2.name>>
           /\ h1.id # h2.id
           /\ eq(h1, h2)

(***************************************************************************)
(* The routing of the arrays of a trace.                                   *)
(***************************************************************************)

\* the leaves of the trace read whose path is <module>/<base>_<k> with k a
\* number, base an array column of module and k in its range, and whose
\* array the column accepts
Routable ==
    {k \in 1..Len(TracePaths) :
        LET path == TracePaths[k]
            name == path[Len(path)]
            base == SubSeq(name, 1, Len(name) - 1)
        IN  /\ trace.file[k] # NotThere
            /\ Len(path) >= 2
            /\ Len(name) >= 2
            /\ parse_usize(name[Len(name)]).some
            /\ path[Len(path) - 1] \in DOMAIN TraceColumns
            /\ base \in DOMAIN TraceColumns[path[Len(path) - 1]]
            /\ LET column == TraceColumns[path[Len(path) - 1]][base] IN
                   /\ column.kind = "Array"
                   /\ parse_usize(name[Len(name)]).v \in column.range
                   /\ parse_column(trace.file[k], column.t).ok}

\* where a routable leaf belongs
StoredAt(k) ==
    LET path == TracePaths[k]
        name == path[Len(path)]
    IN  trace.cols[path[Len(path) - 1]][SubSeq(name, 1, Len(name) - 1)]
            .values[parse_usize(name[Len(name)]).v]

\* the leaves of the trace read that only warn: the path is too short, the
\* module or the column is unknown, or the index is out of range
OnlyWarns ==
    \A k \in 1..Len(TracePaths) :
        trace.file[k] # NotThere =>
            fill_leaf(TraceColumns, TracePaths[k], trace.file[k]).warn # <<>>

\* C27: once fill_traces has run, every leaf array at <module>/<base>_<k>,
\* with base an array column of the module and k in its range, is index k
\* of that column, whether base has underscores or not; and a trace whose
\* leaves are all unknown or out of range leaves fill_traces return Ok
C27_TraceRouting ==
    trace.phase = "filled" =>
        /\ trace.result = "Ok" =>
               \A k \in Routable : StoredAt(k) = Value(trace.file[k])
        /\ OnlyWarns => trace.result = "Ok"

(***************************************************************************)
(* The hexadecimal rendering of the values.                                *)
(***************************************************************************)

\* C28: a value is rendered as 0x0 and its hexadecimal digits without the
\* leading zeros, zero as 0x0; read back as a hexadecimal number the
\* rendering gives the value again, and no other value has the same
\* rendering
C28_HexRoundTrip ==
    hexed.written =>
        /\ hexed.s = <<"0", "x", "0">>
                \o trim_start_matches(
                       SubSeq(into_repr_to_string(hexed.x), 3, HexWidth + 2), "0")
        /\ Len(hexed.s) > 3 => hexed.s[4] # "0"
        /\ hexed.x = 0 <=> hexed.s = <<"0", "x", "0">>
        /\ from_hex(hexed.s) = hexed.x
        /\ \A y \in ReprValues : render(y) = hexed.s => y = hexed.x

\* a value whose representation has leading zeros and a zero after its
\* first digit is written
C28_Witness ==
    /\ hexed.written
    /\ hexed.x = 16
    /\ hexed.s = <<"0", "x", "0", "1", "0">>

(***************************************************************************)
(* The termination of the evaluator.                                       *)
(***************************************************************************)

\* the computations compute_all has been through without an error
Computed(i) == i < nexti /\ \A k \in 1..Len(elog) : elog[k].i # i

\* C29: compute_all never runs out of stack, whatever the computation
\* table, and the columns a composite column was computed from are all
\* computed; this includes a composite column that mentions itself and two
\* that mention each other
C29_SchedulerTermination ==
    /\ pass # "crashed"
    /\ \A i \in 1..Len(ct.computations) :
           (Computed(i) /\ ct.computations[i].kind = "Composite") =>
               \A h \in dependencies(ct.computations[i].exp) :
                   is_computed(modules[h])

(***************************************************************************)
(* The inversion cache of the evaluator.                                   *)
(***************************************************************************)

\* the expressions eval can be run on: the exponents are known at compile
\* time and not negative, the offsets of the shifts are known
RECURSIVE Evaluable(_)
Evaluable(exp) ==
    /\ \A k \in 1..Len(exp.args) : Evaluable(exp.args[k])
    /\ exp.e \in {"Exp", "Shift"} =>
           /\ Len(exp.args) = 2
           /\ pure_eval(exp.args[2]).ok
           /\ exp.e = "Exp" => pure_eval(exp.args[2]).v >= 0

\* the rows of the trace EqRows and one row beyond them
InvRows == 0..4

\* C30: on every expression the reducer returns, every row and the columns
\* of a trace, eval with an inversion cache and eval without one return the
\* same Option<Fr>, a read out of range included
C30_InvCache ==
    (reduced.ok /\ reduced.some /\ Evaluable(reduced.exp)) =>
        \A i \in InvRows :
            eval_with(reduced.exp, i, EqRows, TRUE)
                = eval_with(reduced.exp, i, EqRows, FALSE)

====
